---- MODULE Spec2Model ----
(***************************************************************************)
(* Disaster-alert relay gateway (external-service + central-service).      *)
(*                                                                         *)
(* The module holds these state machines over one set of variables:        *)
(*   SpecWS  external-service WebSocket session manager                    *)
(*   Spec    external-service reliable transmit of disaster_transmit_logs  *)
(*   SpecSilent  the same transmit with a subscriber that never answers    *)
(*   SpecRT  central-service report consumer and reliable report transmit  *)
(*   SpecCS  central-service disaster handler and disaster publish worker  *)
(*   SpecES  external-service consumer of the disaster queue               *)
(*   SpecFR  central-service framing and parsing of the CAS byte stream    *)
(*   SpecAPI external-service POST /api/reports/disaster-result            *)
(*   SpecSH  signal handlers, gracefulShutdown and the TCP socket it ends  *)
(*   SpecNo200  report transmit with a CAS that never answers 200          *)
(*   SpecTCP central-service TCP client, its session and the report poller *)
(*   SpecInbox  central-service report consumer with failing statements    *)
(*   SpecEnvelope  central-service disaster handler with malformed frames  *)
(*     and failing statements                                              *)
(*   SpecFRFair  the framing, with every written byte handed over          *)
(*   SpecTX  the transactional handlers of both services and the pg pool   *)
(*                                                                         *)
(* Every async function is cut at its awaits: the synchronous code up to   *)
(* and including the effect of the next database statement is one step.    *)
(* Database statements are taken to succeed except where an action names  *)
(* the failure; broker publishes, sockets and peers (CAS, subscribers)     *)
(* behave nondeterministically.                                            *)
(***************************************************************************)
EXTENDS Integers, Sequences, FiniteSets, TLC

\* ---------------------------------------------------------------- bounds
NumSystems == 1
NumSockets == 3
NumRows == 1
MaxRuns == 1
MaxEmits == 3
MaxRacingEmits == 2

MaxReports == 2
MaxClock == 1
MaxResponses == 1
MaxPendingFailures == 1
NumIdentifiers == 2
NumTransMsgIds == 2
NumExternalSystems == 2
MaxRequests == 2
MaxShutdownCalls == 1
MaxConnects == 2
MaxDisasterMessages == 2
MaxRedeliveries == 1
MaxFrames == 2
\* MAX_BODY_LENGTH is 20 MiB in the configuration; the model keeps the
\* comparison and scales the value.
MAX_BODY_LENGTH == 2
MaxDeliveries == 2
MaxHandlers == 2
MaxPublishRuns == 2

\* ------------------------------------------------------ program constants
DT_MAX_RETRIES == 3
RT_MAX_RETRIES == 3
DP_MAX_RETRIES == 3
MQ_MAX_RETRIES == 3
ES_MQ_MAX_RETRIES == 3
HEADER_LENGTH == 16
DATA_FORMAT == 1
MAGIC_NUMBER == 4660

Systems == 1..NumSystems
Sockets == 1..NumSockets
Rows == 1..NumRows
Runs == 1..MaxRuns
Emits == 1..MaxEmits
Identifiers == 1..NumIdentifiers
ReportIds == 1..MaxReports
Responses == 1..MaxResponses
TransMsgIds == 1..NumTransMsgIds
Handlers == 1..MaxHandlers
PublishRuns == 1..MaxPublishRuns
DisasterMessages == 1..MaxDisasterMessages
ExternalSystems == 1..NumExternalSystems
Requests == 1..MaxRequests
ShutdownCalls == 1..MaxShutdownCalls
None == 0

systemOf(s) == ((s - 1) % NumSystems) + 1
externalSystemIdOf(r) == ((r - 1) % NumSystems) + 1

VARIABLES
    \* --- external-service socket/sessionManager.js
    activeSockets,   \* Map systemId -> socket (None when absent)
    sockState,       \* per socket: "new" | "connected" | "closed"
    addPc,           \* per socket: position of its addSocket call
    addExisting,     \* per socket: existingSocket read by its addSocket call
    \* --- external-service disaster_transmit_logs + reliableTransmitService
    dtLog,           \* rows: [status, retry_count, stale]
    dtRun,           \* per poller run: "idle" | "query" | "wait"
    dtPm,            \* per run and row: the _processMessage call
    emits,           \* per emit: callback slot, timer and their handlers
    nextEmit,
    \* --- central-service report consumer + reliableTransmitService
    reportQueue,     \* messages of the report queue: [type, identifier, retry]
    reportsPublished,\* number of report messages external-service has published
    mqLog,           \* mq_receive_logs of central-service: rows per status
    rtLog,           \* report_transmit_logs: sequence of rows
    now,             \* Date.now()
    casConnected,    \* sessionManager.isConnected()
    casWire,         \* (transMsgId, transMsgSeq) frames written to the CAS socket
    rtRun,           \* per poller run: "idle" | "wait"
    rtPm,            \* per run and row: the processMessage call
    activeTimeouts,  \* Map logId -> timer, kept as the set of its keys
    rtFailures,      \* per row: processFailure calls awaiting their UPDATE
    rtAck,           \* per response in flight: the processAck call
    \* --- central-service disaster handler + disasterPublishWorker
    dpLog,           \* disaster_publish_logs per identifier: [exists, status, retry_count, rows]
    tcpLog,          \* tcp_receive_logs per (transMsgId, transMsgSeq): [status, cap, rows]
    delivered,       \* per (transMsgId, transMsgSeq): [n, cap], deliveries by CAS and their CAP
    handlers,        \* the handleDisasterInfo calls in progress
    dpRun,           \* per worker run: "idle" | "wait"
    dpPm,            \* per run and identifier: the _processOutboxMessage call
    brokerUp,        \* the broker channel exists
    disasterExchange,\* per identifier: messages published to the exchange
    \* --- external-service disaster consumer
    disasterQueue,   \* messages of the disaster queue and their _consumeDisasterMessage calls
    esMqLog,         \* mq_receive_logs of external-service: rows per status
    transmitRows,    \* per (external_system_id, identifier): disaster_transmit_logs rows
    \* --- central-service tcp/protocolParser.js
    frames,          \* the frames CAS writes to the socket: [messageId, body]
    casStream,       \* bytes written by CAS that the socket has not yet handed over
    parser,          \* ProtocolParser: [buffer, neededLength, parsingState, header]
    emittedMessages, \* the 'message' events emitted so far: [header, body]
    \* --- external-service report API
    apiRequests,     \* POST /api/reports/disaster-result requests: [pc, system, identifier, status]
    reportPublishRows, \* per (external system, identifier): DISASTER_RESULT rows in report_publish_logs
    \* --- process lifecycle of the two services
    shutdownCalls,   \* per service, the gracefulShutdown calls: [pc, signal]
    exitCode,        \* per service: the code given to process.exit, Running before
    exitSignal,      \* per service: the signal of the call that reached process.exit
    \* --- central-service TCP client
    tcpClient,       \* TCPClient fields, its socket and the session to CAS
    reconnectTimers, \* pending setTimeout(() => this.connect(), RECONNECT_INTERVAL)
    \* --- central-service report consumer: the broker's view of its deliveries
    reportDeliveries,\* handled deliveries: [n, retry, acks, nacks]
    \* --- both services: the transactional handlers and the pg pool
    txCalls,         \* per handler, its call: [pc, client, tx, error]
    poolClients      \* clients checked out of the pool and not released

wsVars == <<activeSockets, sockState, addPc, addExisting>>
dtVars == <<dtLog, dtRun, dtPm, emits, nextEmit>>
rtVars == <<reportQueue, reportsPublished, mqLog, rtLog, now, casConnected, casWire,
            rtRun, rtPm, activeTimeouts, rtFailures, rtAck>>
csVars == <<dpLog, tcpLog, delivered, handlers, dpRun, dpPm, brokerUp, disasterExchange>>
mqVars == <<disasterQueue, esMqLog, transmitRows>>
frVars == <<frames, casStream, parser, emittedMessages>>
apiVars == <<apiRequests, reportPublishRows>>
shVars == <<shutdownCalls, exitCode, exitSignal>>
tcVars == <<tcpClient, reconnectTimers>>
inVars == <<reportDeliveries>>
txVars == <<txCalls, poolClients>>
auxVars == <<frVars, apiVars, shVars, tcVars, inVars, txVars>>
esVars == <<mqVars, auxVars>>
vars == <<activeSockets, sockState, addPc, addExisting,
          dtLog, dtRun, dtPm, emits, nextEmit,
          reportQueue, reportsPublished, mqLog, rtLog, now, casConnected, casWire,
          rtRun, rtPm, activeTimeouts, rtFailures, rtAck,
          dpLog, tcpLog, delivered, handlers, dpRun, dpPm, brokerUp, disasterExchange,
          disasterQueue, esMqLog, transmitRows,
          frames, casStream, parser, emittedMessages,
          apiRequests, reportPublishRows,
          shutdownCalls, exitCode, exitSignal,
          tcpClient, reconnectTimers, reportDeliveries, txCalls, poolClients>>

\* ===================================================== WebSocket sessions

\* sessionManager.removeSocket: only the mapped socket is dropped.
removeSocket(map, s) ==
    IF map[systemOf(s)] = s THEN [map EXCEPT ![systemOf(s)] = None] ELSE map

\* io.on('connection') -> addSocket up to its first await.
AddSocketBegin(s) ==
    /\ sockState[s] = "new"
    /\ sockState' = [sockState EXCEPT ![s] = "connected"]
    /\ LET existing == activeSockets[systemOf(s)] IN
         IF existing # None
         THEN /\ addExisting' = [addExisting EXCEPT ![s] = existing]
              /\ addPc' = [addPc EXCEPT ![s] = "logOld"]
              /\ UNCHANGED activeSockets
         ELSE /\ activeSockets' = [activeSockets EXCEPT ![systemOf(s)] = s]
              /\ addPc' = [addPc EXCEPT ![s] = "logNew"]
              /\ UNCHANGED addExisting
    /\ UNCHANGED <<dtVars, rtVars, csVars, esVars>>

\* addSocket after the SOCKET_DISCONNECTED log: existingSocket.disconnect(true)
\* (its 'disconnect' handler runs removeSocket), delete, set.
AddSocketReplace(s) ==
    /\ addPc[s] = "logOld"
    /\ LET old == addExisting[s]
           afterOld == IF sockState[old] = "connected"
                       THEN removeSocket(activeSockets, old)
                       ELSE activeSockets
       IN /\ sockState' = [sockState EXCEPT ![old] = "closed"]
          /\ activeSockets' = [afterOld EXCEPT ![systemOf(s)] = s]
    /\ addPc' = [addPc EXCEPT ![s] = "logNew"]
    /\ UNCHANGED <<addExisting, dtVars, rtVars, csVars, esVars>>

\* addSocket after the SOCKET_CONNECTED log.
AddSocketLogged(s) ==
    /\ addPc[s] = "logNew"
    /\ addPc' = [addPc EXCEPT ![s] = "done"]
    /\ UNCHANGED <<activeSockets, sockState, addExisting, dtVars, rtVars, csVars, esVars>>

\* socket.on('disconnect') of a socket the client (or the transport) closed.
SocketDisconnect(s) ==
    /\ sockState[s] = "connected"
    /\ sockState' = [sockState EXCEPT ![s] = "closed"]
    /\ activeSockets' = removeSocket(activeSockets, s)
    /\ UNCHANGED <<addPc, addExisting, dtVars, rtVars, csVars, esVars>>

\* A lookup that ignores the session map.
firstSocketOf(sys) == sys

getSocketBySystemId(sys) == activeSockets[sys]

\* ============================ disaster_transmit_logs: reliable transmit

Terminal(status) == status \in {"SUCCESS", "FAILED"}

\* disasterTransmitLogRepository.updateStatusById: unconditional UPDATE; the
\* BEFORE UPDATE trigger refreshes updated_at.
updateStatusById(log, r, st) ==
    [log EXCEPT ![r] = [status |-> st, retry_count |-> @.retry_count, stale |-> FALSE]]

\* disasterTransmitLogRepository.incrementRetryCount
incrementRetryCount(log, r) ==
    [log EXCEPT ![r] = [status |-> @.status, retry_count |-> @.retry_count + 1, stale |-> FALSE]]

\* disasterTransmitLogRepository.findUnprocessedMessages
findUnprocessedMessages(log) ==
    {r \in Rows : \/ log[r].status = "PENDING"
                  \/ (log[r].status = "SENT" /\ log[r].stale)}

\* _processFailure: position after findById returned a row with this status.
processFailureFound(status) == IF Terminal(status) THEN "done" ELSE "f_incr"

\* A failure handling that gives up at the first failure.
failAtOnce(currentRetryCount) == "FAILED"

\* _processFailure: status written after the increment.
processFailureStatus(currentRetryCount) ==
    IF currentRetryCount + 1 > DT_MAX_RETRIES THEN "FAILED" ELSE "PENDING"

\* _processAck: position after findById returned a row with this status.
processAckFound(status) == IF Terminal(status) THEN "done" ELSE "a_upd"

\* One resumed step of _processFailure / _processAck on row r; onFail is the
\* status that the currentRetryCount of the call makes _processFailure write.
handlerLog(pc, r, onFail, log) ==
    CASE pc = "f_incr" -> incrementRetryCount(log, r)
      [] pc = "f_upd" -> updateStatusById(log, r, onFail)
      [] pc = "a_upd" -> updateStatusById(log, r, "SUCCESS")
      [] OTHER -> log

handlerPc(pc) == IF pc = "f_incr" THEN "f_upd" ELSE "done"

\* The identifier column of a row (written once, by createBulk) and the
\* payload _processMessage builds from logId and the columns it read.
identifierOf(r) == r
payloadOf(logId, identifier) == [logId |-> logId, identifier |-> identifier]

\* _processMessage: the retry-limit test made on the row read by findById.
retryLimitReached(currentRetryCount) == currentRetryCount >= DT_MAX_RETRIES

NoEmit == [row |-> None, payload |-> None, onFail |-> "PENDING", sock |-> None,
           ackReceived |-> FALSE,
           timer |-> "none", cb |-> "none", th |-> "none", ch |-> "none"]
\* An emit whose timer and callback can no longer run a handler keeps no
\* closure: its captured values are unreachable.
settled(em) ==
    IF /\ em.timer # "armed" /\ em.th \in {"none", "done"}
       /\ em.cb # "pending" /\ em.ch \in {"none", "done"}
    THEN [em EXCEPT !.onFail = "PENDING"]
    ELSE em

NoPm == [pc |-> "none", status |-> "PENDING", rc |-> 0, sock |-> None]

\* Emit records still free for the calls of a run: those neither used nor
\* claimed by a _processMessage call that may still emit.
emitSlotsFree(cap) ==
    cap - (nextEmit - 1)
        - Cardinality({kr \in Runs \X Rows :
                          dtPm[kr[1]][kr[2]].pc \in {"find", "decide", "emit"}})

\* disasterTransmitWorker.run, fired by setInterval: the query and the
\* hand-over of every returned id to transmitMessage.  A run is explored
\* while every row it may emit can get an emit record.
DtRun(k, cap) ==
    /\ dtRun[k] = "idle"
    /\ LET messages == findUnprocessedMessages(dtLog) IN
         /\ Cardinality({r \in messages : ~retryLimitReached(dtLog[r].retry_count)})
                <= emitSlotsFree(cap)
         /\ dtPm' = [dtPm EXCEPT ![k] = [r \in Rows |->
                        IF r \in messages THEN [NoPm EXCEPT !.pc = "find"] ELSE NoPm]]
    /\ dtRun' = [dtRun EXCEPT ![k] = "wait"]
    /\ UNCHANGED <<wsVars, rtVars, csVars, dtLog, emits, nextEmit, esVars>>

\* disasterTransmitWorker.run: Promise.all settled.
DtRunDone(k) ==
    /\ dtRun[k] = "wait"
    /\ \A r \in Rows : dtPm[k][r].pc \in {"none", "done"}
    /\ dtRun' = [dtRun EXCEPT ![k] = "idle"]
    /\ dtPm' = [dtPm EXCEPT ![k] = [r \in Rows |-> NoPm]]
    /\ UNCHANGED <<wsVars, rtVars, csVars, dtLog, emits, nextEmit, esVars>>

\* _processMessage: findById and the final-state test.
ProcessMessageFind(k, r) ==
    /\ dtPm[k][r].pc = "find"
    /\ dtPm' = [dtPm EXCEPT ![k][r] =
                  IF Terminal(dtLog[r].status)
                  THEN [NoPm EXCEPT !.pc = "done"]
                  ELSE [NoPm EXCEPT !.pc = "decide",
                                    !.status = dtLog[r].status,
                                    !.rc = dtLog[r].retry_count]]
    /\ UNCHANGED <<wsVars, rtVars, csVars, dtLog, dtRun, emits, nextEmit, esVars>>

\* _processMessage after findById: retry limit, socket lookup, UPDATE.
ProcessMessageDecide(k, r) ==
    /\ dtPm[k][r].pc = "decide"
    /\ LET p == dtPm[k][r]
           targetSocket == getSocketBySystemId(externalSystemIdOf(r))
       IN IF retryLimitReached(p.rc)
          THEN /\ dtLog' = updateStatusById(dtLog, r, "FAILED")
               /\ dtPm' = [dtPm EXCEPT ![k][r].pc = "done"]
          ELSE IF targetSocket = None
          THEN /\ dtLog' = IF p.status = "SENT"
                           THEN updateStatusById(dtLog, r, "PENDING") ELSE dtLog
               /\ dtPm' = [dtPm EXCEPT ![k][r].pc = "done"]
          ELSE /\ dtLog' = updateStatusById(dtLog, r, "SENT")
               /\ dtPm' = [dtPm EXCEPT ![k][r] =
                             [p EXCEPT !.pc = "emit", !.sock = targetSocket]]
    /\ UNCHANGED <<wsVars, rtVars, csVars, dtRun, emits, nextEmit, esVars>>

\* _processMessage after the SENT update: setTimeout and targetSocket.emit.
ProcessMessageEmit(k, r) ==
    /\ dtPm[k][r].pc = "emit"
    /\ nextEmit' = nextEmit + 1
    /\ LET p == dtPm[k][r] IN
         emits' = [emits EXCEPT ![nextEmit] =
                     [row |-> r, payload |-> payloadOf(r, identifierOf(r)),
                      onFail |-> processFailureStatus(p.rc), sock |-> p.sock,
                      ackReceived |-> FALSE,
                      timer |-> "armed", cb |-> "pending", th |-> "none", ch |-> "none"]]
    /\ dtPm' = [dtPm EXCEPT ![k][r] = [NoPm EXCEPT !.pc = "done"]]
    /\ UNCHANGED <<wsVars, rtVars, csVars, dtLog, dtRun, esVars>>

\* _processMessage: emit throws; clearTimeout, then _processFailure's findById.
ProcessMessageEmitError(k, r) ==
    /\ dtPm[k][r].pc = "emit"
    /\ dtPm' = [dtPm EXCEPT ![k][r].pc = processFailureFound(dtLog[r].status)]
    /\ UNCHANGED <<wsVars, rtVars, csVars, dtLog, dtRun, emits, nextEmit, esVars>>

\* _processMessage: the awaited _processFailure of the emit-error path.
ProcessMessageFailure(k, r) ==
    /\ dtPm[k][r].pc \in {"f_incr", "f_upd"}
    /\ dtLog' = handlerLog(dtPm[k][r].pc, r, processFailureStatus(dtPm[k][r].rc), dtLog)
    /\ dtPm' = [dtPm EXCEPT ![k][r].pc = handlerPc(@)]
    /\ UNCHANGED <<wsVars, rtVars, csVars, dtRun, emits, nextEmit, esVars>>

\* The setTimeout callback: timer expiry, the ackReceived test and
\* _processFailure's findById.
AckTimeout(e) ==
    /\ emits[e].timer = "armed"
    /\ emits' = [emits EXCEPT ![e] = settled(
                  [@ EXCEPT !.timer = "fired",
                            !.th = IF emits[e].ackReceived THEN "done"
                                   ELSE processFailureFound(dtLog[emits[e].row].status)])]
    /\ UNCHANGED <<wsVars, rtVars, csVars, dtLog, dtRun, dtPm, nextEmit, esVars>>

\* The emit callback: the subscriber answers over the socket of the emit.
EmitCallback(e, response) ==
    /\ emits[e].cb = "pending"
    /\ emits' = [emits EXCEPT ![e] = settled(
         IF @.ackReceived
         THEN [@ EXCEPT !.cb = "called", !.ch = "done"]
         ELSE [@ EXCEPT !.cb = "called",
                        !.ackReceived = TRUE,
                        !.timer = IF @ = "armed" THEN "cleared" ELSE @,
                        !.ch = IF response = "ack"
                               THEN processAckFound(dtLog[emits[e].row].status)
                               ELSE processFailureFound(dtLog[emits[e].row].status)])]
    /\ UNCHANGED <<wsVars, rtVars, csVars, dtLog, dtRun, dtPm, nextEmit, esVars>>

\* _processFailure resumed in the timer callback.
TimeoutFailure(e) ==
    /\ emits[e].th \in {"f_incr", "f_upd"}
    /\ dtLog' = handlerLog(emits[e].th, emits[e].row, emits[e].onFail, dtLog)
    /\ emits' = [emits EXCEPT ![e] = settled([@ EXCEPT !.th = handlerPc(@)])]
    /\ UNCHANGED <<wsVars, rtVars, csVars, dtRun, dtPm, nextEmit, esVars>>

\* _processAck / _processFailure resumed in the emit callback.
CallbackResume(e) ==
    /\ emits[e].ch \in {"f_incr", "f_upd", "a_upd"}
    /\ dtLog' = handlerLog(emits[e].ch, emits[e].row, emits[e].onFail, dtLog)
    /\ emits' = [emits EXCEPT ![e] = settled([@ EXCEPT !.ch = handlerPc(@)])]
    /\ UNCHANGED <<wsVars, rtVars, csVars, dtRun, dtPm, nextEmit, esVars>>

\* TRANSMISSION_TIMEOUT elapses since the last UPDATE of a SENT row.
SentGoesStale(r) ==
    /\ dtLog[r].status = "SENT"
    /\ ~dtLog[r].stale
    /\ dtLog' = [dtLog EXCEPT ![r].stale = TRUE]
    /\ UNCHANGED <<wsVars, rtVars, csVars, dtRun, dtPm, emits, nextEmit, esVars>>

\* The socket of a subscriber closes: removeSocket runs, and the callbacks of
\* the emits made on it can no longer be called.
SubscriberDisconnects(s) ==
    /\ sockState[s] = "connected"
    /\ sockState' = [sockState EXCEPT ![s] = "closed"]
    /\ activeSockets' = removeSocket(activeSockets, s)
    /\ emits' = [e \in Emits |->
                  IF emits[e].sock = s /\ emits[e].cb = "pending"
                  THEN settled([emits[e] EXCEPT !.cb = "lost"])
                  ELSE emits[e]]
    /\ UNCHANGED <<addPc, addExisting, dtLog, dtRun, dtPm, nextEmit, rtVars, csVars, esVars>>

\* A subscriber without a registered socket connects (sockets are taken in
\* order: they are interchangeable).
SubscriberConnects(s) ==
    /\ activeSockets[systemOf(s)] = None
    /\ \A t \in Sockets : t < s => sockState[t] # "new"
    /\ AddSocketBegin(s)

\* ==================== report_transmit_logs: consumer and reliable transmit

NoDp == [exists |-> FALSE, status |-> "PENDING", retry_count |-> 0, rows |-> 0]
NoRtPm == [pc |-> "none", log |-> None]
NoAck == [pc |-> "none", logId |-> None, status |-> "PENDING", resultCode |-> "200"]

\* disasterPublishLogRepository.existsByIdentifier / findByIdentifier
existsByIdentifier(log, identifier) == log[identifier].exists

\* _consumeReportMessage: the transMsgId given to a report.
outboundIdOf(type, identifier, clock) ==
    IF type = "DISASTER_RESULT" THEN <<"RPT_1", identifier>> ELSE <<"KR", clock>>

\* reportTransmitLogRepository.create: the column defaults of the migration.
newReportRow(type, identifier, outboundId) ==
    [type |-> type, identifier |-> identifier, outbound_id |-> outboundId,
     report_sequence |-> 1, status |-> "PENDING", retry_count |-> 0, stale |-> FALSE]

\* reportTransmitLogRepository.updateStatusById: unconditional UPDATE.
rtUpdateStatusById(log, id, st) ==
    [log EXCEPT ![id].status = st, ![id].stale = FALSE]

\* reportTransmitLogRepository.findUnprocessedMessages
rtFindUnprocessedMessages(log) ==
    {r \in DOMAIN log : \/ log[r].status = "PENDING"
                        \/ (log[r].status = "SENT" /\ log[r].stale)}

\* reportTransmitLogRepository.findByOutboundIdAndReportSequence: the rows
\* among which LIMIT 1 picks.
findByOutboundIdAndReportSequence(log, outboundId, reportSequence) ==
    {r \in DOMAIN log : log[r].outbound_id = outboundId
                        /\ log[r].report_sequence = reportSequence}

\* mqReceiveLogRepository.create followed by the status the consumer leaves
\* the new row in.
mqCreate(log, st) == [log EXCEPT ![st] = @ + 1]

\* external-service publishes a report message to the report queue.
PublishReport(type, identifier) ==
    /\ reportsPublished < MaxReports
    /\ reportsPublished' = reportsPublished + 1
    /\ reportQueue' = reportQueue \cup
          {[n |-> reportsPublished + 1, type |-> type, identifier |-> identifier, retry |-> 0]}
    /\ UNCHANGED <<wsVars, dtVars, csVars, mqLog, rtLog, now, casConnected, casWire,
                   rtRun, rtPm, activeTimeouts, rtFailures, rtAck, esVars>>

\* A retry test that lets one more delivery through.
retryAllowedOnceMore(retryCount) == retryCount <= MQ_MAX_RETRIES

\* _consumeReportMessage: the test that sends a failed delivery to the retry
\* exchange.
retryAllowed(retryCount) == retryCount < MQ_MAX_RETRIES

\* channel.ack / channel.nack(msg, false, false) calls made for a delivery.
settle(deliveries, msg, acks, nacks) ==
    deliveries \cup {[n |-> msg.n, retry |-> msg.retry, acks |-> acks, nacks |-> nacks]}

\* _consumeReportMessage: inbox row, transaction, outbox row, ack; on an error
\* the retry exchange (x-retry-count + 1) or, at the limit, nack and FAILED.
\* faults: "db", the inbox UPDATE or the COMMIT of the transaction fails;
\* "publish", channel.publish to the retry exchange throws. The outbox INSERT
\* runs on the pool, outside the transaction, and survives the ROLLBACK. The
\* catch of a failed publish calls logger.err, which the logger does not
\* have: the TypeError leaves the handler before channel.nack.
ConsumeReportMessage(msg, faults) ==
    /\ msg \in reportQueue
    /\ LET unknown == msg.type = "DISASTER_RESULT" /\ ~existsByIdentifier(dpLog, msg.identifier)
           failed == unknown \/ "db" \in faults
       IN /\ rtLog' = IF unknown THEN rtLog
                      ELSE Append(rtLog, newReportRow(msg.type, msg.identifier,
                                      outboundIdOf(msg.type, msg.identifier, now)))
          /\ IF ~failed
             THEN /\ reportQueue' = reportQueue \ {msg}
                  /\ mqLog' = mqCreate(mqLog, "SUCCESS")
                  /\ reportDeliveries' = settle(reportDeliveries, msg, 1, 0)
             ELSE IF retryAllowed(msg.retry)
             THEN IF "publish" \in faults
                  THEN /\ reportQueue' = reportQueue \ {msg}
                       /\ mqLog' = mqCreate(mqLog, "PENDING")
                       /\ reportDeliveries' = settle(reportDeliveries, msg, 0, 0)
                  ELSE /\ reportQueue' = (reportQueue \ {msg}) \cup {[msg EXCEPT !.retry = @ + 1]}
                       /\ mqLog' = mqCreate(mqLog, "PENDING")
                       /\ reportDeliveries' = settle(reportDeliveries, msg, 1, 0)
             ELSE /\ reportQueue' = reportQueue \ {msg}
                  /\ mqLog' = mqCreate(mqLog, "FAILED")
                  /\ reportDeliveries' = settle(reportDeliveries, msg, 0, 1)
    /\ UNCHANGED <<wsVars, dtVars, csVars, reportsPublished, now, casConnected, casWire,
                   rtRun, rtPm, activeTimeouts, rtFailures, rtAck,
                   mqVars, frVars, apiVars, shVars, tcVars, txVars>>

\* A millisecond passes.
ClockTick ==
    /\ now < MaxClock
    /\ now' = now + 1
    /\ UNCHANGED <<wsVars, dtVars, csVars, reportQueue, reportsPublished, mqLog, rtLog,
                   casConnected, casWire, rtRun, rtPm, activeTimeouts, rtFailures, rtAck, esVars>>

\* The TCP session to CAS comes up / goes down.
CasConnects ==
    /\ ~casConnected
    /\ casConnected' = TRUE
    /\ UNCHANGED <<wsVars, dtVars, csVars, reportQueue, reportsPublished, mqLog, rtLog,
                   now, casWire, rtRun, rtPm, activeTimeouts, rtFailures, rtAck, esVars>>

CasDisconnects ==
    /\ casConnected
    /\ casConnected' = FALSE
    /\ UNCHANGED <<wsVars, dtVars, csVars, reportQueue, reportsPublished, mqLog, rtLog,
                   now, casWire, rtRun, rtPm, activeTimeouts, rtFailures, rtAck, esVars>>

\* The columns of a row object that processMessage reads.
rowObject(row) ==
    [type |-> row.type, identifier |-> row.identifier, outbound_id |-> row.outbound_id,
     report_sequence |-> row.report_sequence, retry_count |-> row.retry_count]

\* reportTransmitWorker._run: the query and the hand-over of every returned
\* row object to processMessage.
RtRun(k) ==
    /\ rtRun[k] = "idle"
    /\ rtRun' = [rtRun EXCEPT ![k] = "wait"]
    /\ rtPm' = [rtPm EXCEPT ![k] = [r \in ReportIds |->
                  IF r \in rtFindUnprocessedMessages(rtLog)
                  THEN [pc |-> "start", log |-> rowObject(rtLog[r])] ELSE NoRtPm]]
    /\ UNCHANGED <<wsVars, dtVars, csVars, reportQueue, reportsPublished, mqLog, rtLog,
                   now, casConnected, casWire, activeTimeouts, rtFailures, rtAck, esVars>>

\* reportTransmitWorker._run: Promise.all settled.
RtRunDone(k) ==
    /\ rtRun[k] = "wait"
    /\ \A r \in ReportIds : rtPm[k][r].pc \in {"none", "done"}
    /\ rtRun' = [rtRun EXCEPT ![k] = "idle"]
    /\ rtPm' = [rtPm EXCEPT ![k] = [r \in ReportIds |-> NoRtPm]]
    /\ UNCHANGED <<wsVars, dtVars, csVars, reportQueue, reportsPublished, mqLog, rtLog,
                   now, casConnected, casWire, activeTimeouts, rtFailures, rtAck, esVars>>

\* sessionManager.send: writes only while the socket is usable.
casSend(wire, connected, log) ==
    IF connected THEN wire \cup {<<log.outbound_id, log.report_sequence>>} ELSE wire

\* processMessage from its start, on the row object the worker passed: the
\* checks, then for device reports send and UPDATE SENT, for disaster results
\* the findByIdentifier lookup.  The catch block cancels the timer and writes
\* FAILED.
ReportProcessMessage(k, r) ==
    /\ rtPm[k][r].pc = "start"
    /\ LET log == rtPm[k][r].log IN
         IF log.retry_count > RT_MAX_RETRIES
         THEN /\ activeTimeouts' = activeTimeouts \ {r}
              /\ rtLog' = rtUpdateStatusById(rtLog, r, "FAILED")
              /\ rtPm' = [rtPm EXCEPT ![k][r].pc = "done"]
              /\ UNCHANGED casWire
         ELSE IF ~casConnected
         THEN /\ rtPm' = [rtPm EXCEPT ![k][r].pc = "done"]
              /\ UNCHANGED <<activeTimeouts, rtLog, casWire>>
         ELSE IF log.type = "DISASTER_RESULT"
         THEN /\ rtPm' = [rtPm EXCEPT ![k][r].pc =
                            IF existsByIdentifier(dpLog, log.identifier)
                            THEN "send" ELSE "missing"]
              /\ UNCHANGED <<activeTimeouts, rtLog, casWire>>
         ELSE /\ casWire' = casSend(casWire, casConnected, log)
              /\ rtLog' = rtUpdateStatusById(rtLog, r, "SENT")
              /\ rtPm' = [rtPm EXCEPT ![k][r].pc = "timer"]
              /\ UNCHANGED activeTimeouts
    /\ UNCHANGED <<wsVars, dtVars, csVars, reportQueue, reportsPublished, mqLog,
                   now, casConnected, rtRun, rtFailures, rtAck, esVars>>

\* processMessage after findByIdentifier returned.
ReportProcessMessageLookedUp(k, r) ==
    /\ rtPm[k][r].pc \in {"send", "missing"}
    /\ IF rtPm[k][r].pc = "missing"
       THEN /\ activeTimeouts' = activeTimeouts \ {r}
            /\ rtLog' = rtUpdateStatusById(rtLog, r, "FAILED")
            /\ rtPm' = [rtPm EXCEPT ![k][r].pc = "done"]
            /\ UNCHANGED casWire
       ELSE /\ casWire' = casSend(casWire, casConnected, rtPm[k][r].log)
            /\ rtLog' = rtUpdateStatusById(rtLog, r, "SENT")
            /\ rtPm' = [rtPm EXCEPT ![k][r].pc = "timer"]
            /\ UNCHANGED activeTimeouts
    /\ UNCHANGED <<wsVars, dtVars, csVars, reportQueue, reportsPublished, mqLog,
                   now, casConnected, rtRun, rtFailures, rtAck, esVars>>

\* processMessage after the SENT update: the timer of the row is replaced.
ReportProcessMessageTimer(k, r) ==
    /\ rtPm[k][r].pc = "timer"
    /\ activeTimeouts' = activeTimeouts \cup {r}
    /\ rtPm' = [rtPm EXCEPT ![k][r].pc = "done"]
    /\ UNCHANGED <<wsVars, dtVars, csVars, reportQueue, reportsPublished, mqLog, rtLog,
                   now, casConnected, casWire, rtRun, rtFailures, rtAck, esVars>>

\* processFailure up to its UPDATE: the timer of the row is cancelled and the
\* row re-read; a row in a final state ends the call.
processFailureBegin(failures, log, logId) ==
    IF Terminal(log[logId].status) THEN failures
    ELSE [failures EXCEPT ![logId] = @ + 1]

\* The setTimeout callback of a row: Map entry deleted, processFailure begun.
ReportAckTimeout(r) ==
    /\ r \in activeTimeouts
    /\ rtFailures[r] < MaxPendingFailures
    /\ activeTimeouts' = activeTimeouts \ {r}
    /\ rtFailures' = processFailureBegin(rtFailures, rtLog, r)
    /\ UNCHANGED <<wsVars, dtVars, csVars, reportQueue, reportsPublished, mqLog, rtLog,
                   now, casConnected, casWire, rtRun, rtPm, rtAck, esVars>>

\* processFailure resumed: UPDATE ... SET status = 'PENDING'.
ReportProcessFailure(r) ==
    /\ rtFailures[r] > 0
    /\ rtFailures' = [rtFailures EXCEPT ![r] = @ - 1]
    /\ rtLog' = rtUpdateStatusById(rtLog, r, "PENDING")
    /\ UNCHANGED <<wsVars, dtVars, csVars, reportQueue, reportsPublished, mqLog,
                   now, casConnected, casWire, rtRun, rtPm, activeTimeouts, rtAck, esVars>>

\* CAS answers a frame it was sent; processAck parses the response and looks
\* the row up by (transMsgId, transMsgSeq).
ReportProcessAck(i, frame, resultCode) ==
    /\ rtAck[i].pc = "none"
    /\ casConnected
    /\ frame \in casWire
    /\ \E r \in findByOutboundIdAndReportSequence(rtLog, frame[1], frame[2]) :
          rtAck' = [rtAck EXCEPT ![i] =
                      [pc |-> "found", logId |-> r, status |-> rtLog[r].status,
                       resultCode |-> resultCode]]
    /\ UNCHANGED <<wsVars, dtVars, csVars, reportQueue, reportsPublished, mqLog, rtLog,
                   now, casConnected, casWire, rtRun, rtPm, activeTimeouts, rtFailures, esVars>>

\* processAck after the lookup: timer cancelled, final-state test on the row
\* as read, then SUCCESS for '200' and processFailure otherwise.
ReportProcessAckFound(i) ==
    /\ rtAck[i].pc = "found"
    /\ LET a == rtAck[i] IN
         /\ activeTimeouts' = activeTimeouts \ {a.logId}
         /\ IF Terminal(a.status)
            THEN UNCHANGED <<rtLog, rtFailures>>
            ELSE IF a.resultCode = "200"
            THEN /\ rtLog' = rtUpdateStatusById(rtLog, a.logId, "SUCCESS")
                 /\ UNCHANGED rtFailures
            ELSE /\ rtFailures[a.logId] < MaxPendingFailures
                 /\ rtFailures' = processFailureBegin(rtFailures, rtLog, a.logId)
                 /\ UNCHANGED rtLog
    /\ rtAck' = [rtAck EXCEPT ![i] = NoAck]
    /\ UNCHANGED <<wsVars, dtVars, csVars, reportQueue, reportsPublished, mqLog,
                   now, casConnected, casWire, rtRun, rtPm, esVars>>

\* TRANSMISSION_TIMEOUT elapses since the last UPDATE of a SENT row.
ReportSentGoesStale(r) ==
    /\ r \in DOMAIN rtLog
    /\ rtLog[r].status = "SENT"
    /\ ~rtLog[r].stale
    /\ rtLog' = [rtLog EXCEPT ![r].stale = TRUE]
    /\ UNCHANGED <<wsVars, dtVars, csVars, reportQueue, reportsPublished, mqLog,
                   now, casConnected, casWire, rtRun, rtPm, activeTimeouts, rtFailures, rtAck, esVars>>

\* ============ central-service: disaster handler and disaster publish worker

NoTcp == [status |-> "none", cap |-> None, rows |-> 0]
NoHandler == [pc |-> "idle", transMsgId |-> None, cap |-> None, nth |-> 0,
              resultCode |-> "", noteCode |-> "", envelope |-> "ok", found |-> "none"]
NoDpPm == [pc |-> "none", retryCount |-> 0]

\* The CAP part of a frame: no alert, an alert with an undefined event code,
\* or a valid alert with the given identifier.
NoAlert == None
UndefinedEventCode == NumIdentifiers + 1
Caps == {NoAlert, UndefinedEventCode} \cup Identifiers

\* A mapping that answers every outcome as an internal error.
mapToInternalError(errorName) == [resultCode |-> "500", noteCode |-> "810"]

\* responseUtils._mapErrorToResponseCode
mapErrorToResponseCode(errorName) ==
    CASE errorName = "" -> [resultCode |-> "200", noteCode |-> "000"]
      [] errorName = "ValidationError" -> [resultCode |-> "400", noteCode |-> "210"]
      [] errorName = "ProfileError" -> [resultCode |-> "400", noteCode |-> "220"]
      [] errorName = "DuplicateMessageError" -> [resultCode |-> "400", noteCode |-> "300"]
      [] errorName = "ParsingError" -> [resultCode |-> "500", noteCode |-> "810"]
      [] OTHER -> [resultCode |-> "500", noteCode |-> "810"]

\* responseUtils.createCnfDisInfoBuffer: the note travels in the ACK CAP, which
\* is built only when the frame carried an alert.
createCnfDisInfo(cap, errorName) ==
    [resultCode |-> mapErrorToResponseCode(errorName).resultCode,
     noteCode |-> IF cap = NoAlert THEN "none"
                  ELSE mapErrorToResponseCode(errorName).noteCode]

\* tcpReceiveLogRepository.isDuplicate
isDuplicate(log, transMsgId) == log[transMsgId].rows > 0

\* A table without the unique constraint.
noConstraint(log, transMsgId) == FALSE

\* unique_tcp_receive_log: the constraint on (inbound_id, inbound_seq) rejects
\* the insert.
uniqueViolation(log, transMsgId) == log[transMsgId].rows >= 1

\* tcpReceiveLogRepository.create: one more row, status by default PENDING.
tcpCreate(log, transMsgId, cap) ==
    [log EXCEPT ![transMsgId] = [status |-> "PENDING", cap |-> cap, rows |-> @.rows + 1]]

\* handleDisasterInfo: the error of the CAP checks in the transaction ("" if none).
capError(cap) ==
    CASE cap = NoAlert -> "ValidationError"
      [] cap = UndefinedEventCode -> "ProfileError"
      [] OTHER -> ""

\* An insert that replaces the row of the identifier.
dpReplace(log, identifier) ==
    [log EXCEPT ![identifier] =
        [exists |-> TRUE, status |-> "PENDING", retry_count |-> 0, rows |-> 1]]

\* A plain INSERT into a table without the unique constraint on identifier.
dpInsert(log, identifier) ==
    [log EXCEPT ![identifier] =
        [exists |-> TRUE, status |-> "PENDING", retry_count |-> 0, rows |-> @.rows + 1]]

\* disasterPublishLogRepository.create: INSERT ... ON CONFLICT (identifier) DO NOTHING
dpCreate(log, identifier) ==
    IF log[identifier].rows >= 1 THEN log
    ELSE [log EXCEPT ![identifier] =
            [exists |-> TRUE, status |-> "PENDING", retry_count |-> 0, rows |-> 1]]

replied(h, cap, errorName) ==
    [h EXCEPT !.pc = "replied",
              !.resultCode = createCnfDisInfo(cap, errorName).resultCode,
              !.noteCode = createCnfDisInfo(cap, errorName).noteCode]

\* The XML wrappers handleDisasterInfo cannot use: not XML at all, or without
\* transMsgId, or without transMsgSeq.
Malformed == {"unparsable", "noTransMsgId", "noTransMsgSeq"}

\* handleDisasterInfo, catch block: a reply is sent when receivedData was
\* assigned and createCnfDisInfoBuffer, which needs transMsgId and
\* transMsgSeq, returns a buffer.
nackSent(envelope) ==
    LET receivedData == envelope # "unparsable"
        errorBuffer == envelope \notin {"noTransMsgId", "noTransMsgSeq"}
    IN receivedData /\ errorBuffer

RECURSIVE deliveriesUpTo(_)
deliveriesUpTo(t) == IF t = 0 THEN 0 ELSE delivered[t].n + deliveriesUpTo(t - 1)

\* parser 'message' event: a framed ETS_NFY_DIS_INFO starts handleDisasterInfo
\* (client checkout and parsing of the XML wrapper).  A frame that is delivered
\* again carries the CAP it carried the first time; found is the status its
\* tcp_receive_logs row has at that moment.  Message ids and alert
\* identifiers are interchangeable, so new ones are taken in order.
CasDelivers(h, transMsgId, cap) ==
    /\ handlers[h].pc = "idle"
    /\ \A t \in TransMsgIds : t < transMsgId => delivered[t].n > 0
    /\ \A d \in Identifiers : (cap \in Identifiers /\ d < cap) =>
                                  \E t \in TransMsgIds : delivered[t].n > 0 /\ delivered[t].cap = d
    /\ \A g \in Handlers : g < h => handlers[g].pc # "idle"
    /\ deliveriesUpTo(NumTransMsgIds) < MaxDeliveries
    /\ delivered[transMsgId].n > 0 => cap = delivered[transMsgId].cap
    /\ delivered' = [delivered EXCEPT ![transMsgId] = [n |-> @.n + 1, cap |-> cap]]
    /\ handlers' = [handlers EXCEPT ![h] =
                      [NoHandler EXCEPT !.pc = "dup", !.transMsgId = transMsgId,
                                        !.cap = cap, !.nth = delivered[transMsgId].n + 1,
                                        !.found = tcpLog[transMsgId].status]]
    /\ UNCHANGED <<wsVars, dtVars, rtVars, dpLog, tcpLog, dpRun, dpPm, brokerUp,
                   disasterExchange, esVars>>

\* handleDisasterInfo on a frame whose XML wrapper cannot be used: ParsingError
\* before any statement, ROLLBACK, no inbox row to update, then the reply of
\* the catch block, if one can be built.
CasDeliversMalformed(h, envelope) ==
    /\ handlers[h].pc = "idle"
    /\ \A g \in Handlers : g < h => handlers[g].pc # "idle"
    /\ handlers' = [handlers EXCEPT ![h] =
                      IF nackSent(envelope)
                      THEN replied([NoHandler EXCEPT !.envelope = envelope], NoAlert, "ParsingError")
                      ELSE [NoHandler EXCEPT !.pc = "unanswered", !.envelope = envelope]]
    /\ UNCHANGED <<wsVars, dtVars, rtVars, dpLog, tcpLog, delivered, dpRun, dpPm, brokerUp,
                   disasterExchange, esVars>>

\* handleDisasterInfo: isDuplicate; a duplicate is answered from the catch block.
HandleDuplicateCheck(h) ==
    /\ handlers[h].pc = "dup"
    /\ handlers' = [handlers EXCEPT ![h] =
                      IF isDuplicate(tcpLog, @.transMsgId)
                      THEN replied(@, @.cap, "DuplicateMessageError")
                      ELSE [@ EXCEPT !.pc = "create"]]
    /\ UNCHANGED <<wsVars, dtVars, rtVars, dpLog, tcpLog, delivered, dpRun, dpPm, brokerUp,
                   disasterExchange, esVars>>

\* handleDisasterInfo: tcpReceiveLogRepository.create; the unique constraint on
\* (inbound_id, inbound_seq) rejects a second row with an error of no known name.
HandleCreate(h) ==
    /\ handlers[h].pc = "create"
    /\ LET t == handlers[h].transMsgId IN
         IF uniqueViolation(tcpLog, t)
         THEN /\ handlers' = [handlers EXCEPT ![h] = replied(@, @.cap, "error")]
              /\ UNCHANGED tcpLog
         ELSE /\ tcpLog' = tcpCreate(tcpLog, t, handlers[h].cap)
              /\ handlers' = [handlers EXCEPT ![h].pc = "txn"]
    /\ UNCHANGED <<wsVars, dtVars, rtVars, dpLog, delivered, dpRun, dpPm, brokerUp,
                   disasterExchange, esVars>>

\* handleDisasterInfo: the transaction (CAP checks, outbox insert, inbox SUCCESS,
\* COMMIT) and the reply; on a CAP error ROLLBACK, inbox FAILED and the NACK.
\* With fault a statement of the transaction fails with an error of no
\* known name: ROLLBACK, inbox FAILED and the NACK of an internal error.
HandleTransaction(h, fault) ==
    /\ handlers[h].pc = "txn"
    /\ LET t == handlers[h].transMsgId
           cap == handlers[h].cap
           errorName == IF capError(cap) # "" THEN capError(cap)
                        ELSE IF fault THEN "error" ELSE ""
       IN /\ IF errorName # ""
             THEN /\ tcpLog' = [tcpLog EXCEPT ![t].status = "FAILED"]
                  /\ UNCHANGED dpLog
             ELSE /\ dpLog' = dpCreate(dpLog, cap)
                  /\ tcpLog' = [tcpLog EXCEPT ![t].status = "SUCCESS"]
          /\ handlers' = [handlers EXCEPT ![h] = replied(@, @.cap, errorName)]
    /\ UNCHANGED <<wsVars, dtVars, rtVars, delivered, dpRun, dpPm, brokerUp, disasterExchange, esVars>>

\* handleDisasterInfo returns (finally: client released).
HandlerReturns(h) ==
    /\ handlers[h].pc \in {"replied", "unanswered"}
    /\ handlers' = [handlers EXCEPT ![h] = NoHandler]
    /\ UNCHANGED <<wsVars, dtVars, rtVars, dpLog, tcpLog, delivered, dpRun, dpPm, brokerUp,
                   disasterExchange, esVars>>

\* disasterPublishLogRepository.findUnprocessedMessages
dpFindUnprocessedMessages(log) ==
    {d \in Identifiers : log[d].exists /\ log[d].status = "PENDING"}

\* disasterPublishWorker._run, fired by start or setInterval: the query and the
\* hand-over of every returned row object to _processOutboxMessage.
DpRun(k) ==
    /\ dpRun[k] = "idle"
    /\ \A j \in PublishRuns : j < k => dpRun[j] # "idle"
    /\ dpRun' = [dpRun EXCEPT ![k] = "wait"]
    /\ dpPm' = [dpPm EXCEPT ![k] = [d \in Identifiers |->
                  IF d \in dpFindUnprocessedMessages(dpLog)
                  THEN [pc |-> "start", retryCount |-> dpLog[d].retry_count]
                  ELSE NoDpPm]]
    /\ UNCHANGED <<wsVars, dtVars, rtVars, dpLog, tcpLog, delivered, handlers, brokerUp,
                   disasterExchange, esVars>>

\* disasterPublishWorker._run: Promise.all settled.
DpRunDone(k) ==
    /\ dpRun[k] = "wait"
    /\ \A d \in Identifiers : dpPm[k][d].pc \in {"none", "done"}
    /\ dpRun' = [dpRun EXCEPT ![k] = "idle"]
    /\ dpPm' = [dpPm EXCEPT ![k] = [d \in Identifiers |-> NoDpPm]]
    /\ UNCHANGED <<wsVars, dtVars, rtVars, dpLog, tcpLog, delivered, handlers, brokerUp,
                   disasterExchange, esVars>>

\* _processOutboxMessage: the retry-limit test on the row object.
dpRetryLimitReached(retryCount) == retryCount >= DP_MAX_RETRIES

\* _processOutboxMessage on the row object of the run: FAILED at the retry
\* limit; otherwise publishDisaster and SUCCESS, or retry_count + 1 when
\* publishDisaster throws (no channel).
ProcessOutboxMessage(k, d) ==
    /\ dpPm[k][d].pc = "start"
    /\ IF dpRetryLimitReached(dpPm[k][d].retryCount)
       THEN /\ dpLog' = [dpLog EXCEPT ![d].status = "FAILED"]
            /\ UNCHANGED disasterExchange
       ELSE IF brokerUp
       THEN /\ disasterExchange' = [disasterExchange EXCEPT ![d] = @ + 1]
            /\ dpLog' = [dpLog EXCEPT ![d].status = "SUCCESS"]
       ELSE /\ dpLog' = [dpLog EXCEPT ![d].retry_count = @ + 1]
            /\ UNCHANGED disasterExchange
    /\ dpPm' = [dpPm EXCEPT ![k][d].pc = "done"]
    /\ UNCHANGED <<wsVars, dtVars, rtVars, tcpLog, delivered, handlers, dpRun, brokerUp, esVars>>

\* The broker connection is lost / re-established.
BrokerDown ==
    /\ brokerUp
    /\ brokerUp' = FALSE
    /\ UNCHANGED <<wsVars, dtVars, rtVars, dpLog, tcpLog, delivered, handlers, dpRun, dpPm,
                   disasterExchange, esVars>>

BrokerBack ==
    /\ ~brokerUp
    /\ brokerUp' = TRUE
    /\ UNCHANGED <<wsVars, dtVars, rtVars, dpLog, tcpLog, delivered, handlers, dpRun, dpPm,
                   disasterExchange, esVars>>

\* ======================= external-service: consumer of the disaster queue

NoMsg == [pc |-> "none", identifier |-> None, retry |-> 0, subs |-> {}, redelivered |-> 0]

\* An INSERT into a table without the unique constraint.
insertBulk(rows, subscribedSystems, identifier) ==
    [y \in ExternalSystems |-> [d \in Identifiers |->
        IF y \in subscribedSystems /\ d = identifier THEN rows[y][d] + 1 ELSE rows[y][d]]]

\* disasterTransmitLogRepository.createBulk: one row per subscribed system,
\* ON CONFLICT (external_system_id, identifier) DO NOTHING.
createBulk(rows, subscribedSystems, identifier) ==
    [y \in ExternalSystems |-> [d \in Identifiers |->
        IF y \in subscribedSystems /\ d = identifier /\ rows[y][d] = 0 THEN 1
        ELSE rows[y][d]]]

\* mqReceiveLogRepository.updateStatus of a PENDING row.
esMqUpdateStatus(log, st) == [log EXCEPT !["PENDING"] = @ - 1, ![st] = @ + 1]

\* central-service publishes an alert on disaster.<eventCode>; the message
\* arrives in the disaster queue.
DisasterPublished(m, d) ==
    /\ disasterQueue[m].pc = "none"
    /\ \A n \in DisasterMessages : n < m => disasterQueue[n].pc # "none"
    /\ disasterQueue' = [disasterQueue EXCEPT ![m] =
                           [NoMsg EXCEPT !.pc = "queued", !.identifier = d]]
    /\ UNCHANGED <<wsVars, dtVars, rtVars, csVars, auxVars, esMqLog, transmitRows>>

\* _consumeDisasterMessage: the message is delivered and recorded in
\* mq_receive_logs.
ConsumeDisasterMessage(m) ==
    /\ disasterQueue[m].pc = "queued"
    /\ esMqLog' = [esMqLog EXCEPT !["PENDING"] = @ + 1]
    /\ disasterQueue' = [disasterQueue EXCEPT ![m].pc = "logged"]
    /\ UNCHANGED <<wsVars, dtVars, rtVars, csVars, auxVars, transmitRows>>

\* _consumeDisasterMessage: BEGIN and findBySubscribedEventCode, which returns
\* the active systems subscribed to the event code.
ConsumeLookup(m, subscribedSystems) ==
    /\ disasterQueue[m].pc = "logged"
    /\ disasterQueue' = [disasterQueue EXCEPT ![m].pc = "found", ![m].subs = subscribedSystems]
    /\ UNCHANGED <<wsVars, dtVars, rtVars, csVars, auxVars, esMqLog, transmitRows>>

\* _consumeDisasterMessage: createBulk, inbox SUCCESS and COMMIT.
ConsumeCommit(m) ==
    /\ disasterQueue[m].pc = "found"
    /\ transmitRows' = createBulk(transmitRows, disasterQueue[m].subs, disasterQueue[m].identifier)
    /\ esMqLog' = esMqUpdateStatus(esMqLog, "SUCCESS")
    /\ disasterQueue' = [disasterQueue EXCEPT ![m].pc = "committed"]
    /\ UNCHANGED <<wsVars, dtVars, rtVars, csVars, auxVars>>

\* _consumeDisasterMessage: channel.ack after the commit.
ConsumeAck(m) ==
    /\ disasterQueue[m].pc = "committed"
    /\ disasterQueue' = [disasterQueue EXCEPT ![m].pc = "done"]
    /\ UNCHANGED <<wsVars, dtVars, rtVars, csVars, auxVars, esMqLog, transmitRows>>

\* The channel closes before the ack: the broker delivers the message again.
Redelivered(m) ==
    /\ disasterQueue[m].pc = "committed"
    /\ disasterQueue[m].redelivered < MaxRedeliveries
    /\ disasterQueue' = [disasterQueue EXCEPT ![m].pc = "queued", ![m].subs = {},
                                              ![m].redelivered = @ + 1]
    /\ UNCHANGED <<wsVars, dtVars, rtVars, csVars, auxVars, esMqLog, transmitRows>>

\* _consumeDisasterMessage: a statement of the transaction fails; ROLLBACK,
\* then the message goes to the retry exchange with x-retry-count + 1 (and
\* comes back after the delay) or, at the retry limit, to the dead letter
\* queue with the inbox row FAILED.
ConsumeDbError(m) ==
    /\ disasterQueue[m].pc \in {"logged", "found"}
    /\ IF disasterQueue[m].retry < ES_MQ_MAX_RETRIES
       THEN /\ disasterQueue' = [disasterQueue EXCEPT ![m].pc = "queued", ![m].subs = {},
                                                     ![m].retry = @ + 1]
            /\ UNCHANGED esMqLog
       ELSE /\ disasterQueue' = [disasterQueue EXCEPT ![m].pc = "dlq"]
            /\ esMqLog' = esMqUpdateStatus(esMqLog, "FAILED")
    /\ UNCHANGED <<wsVars, dtVars, rtVars, csVars, auxVars, transmitRows>>

\* ========================= central-service: framing of the CAS byte stream

\* Message ids and body bytes used on the wire; every byte is below 128, so
\* that a 32-bit read of any four of them stays below 2^31.
MessageIds == {4097, 8193}
BodyBytes == {0, 127}

\* A read of the four bytes in little-endian order.
readUint32LE(buf, offset) ==
    buf[offset + 4] * 16777216 + buf[offset + 3] * 65536 + buf[offset + 2] * 256
        + buf[offset + 1]

\* Buffer.readUint32BE(offset)
readUint32BE(buf, offset) ==
    buf[offset + 1] * 16777216 + buf[offset + 2] * 65536 + buf[offset + 3] * 256
        + buf[offset + 4]

\* Buffer.writeUInt32BE(value): the four bytes written
writeUInt32BE(value) ==
    <<(value \div 16777216) % 256, (value \div 65536) % 256, (value \div 256) % 256,
      value % 256>>

\* Buffer.subarray(start)
subarray(buf, start) == SubSeq(buf, start + 1, Len(buf))

\* protocolUtils.buildMessageBuffer, from the encoded body on
buildMessageBuffer(messageId, bodyBuffer) ==
    writeUInt32BE(messageId) \o writeUInt32BE(DATA_FORMAT) \o writeUInt32BE(MAGIC_NUMBER)
        \o writeUInt32BE(Len(bodyBuffer)) \o bodyBuffer

\* A length test that also rejects a body of the maximum length.
atLeastMaxBodyLength(dataLength) == dataLength >= MAX_BODY_LENGTH

\* _parseHeader: the test of the data length
exceedsMaxBodyLength(dataLength) == dataLength > MAX_BODY_LENGTH

NoHeader == [messageId |-> 0, dataFormat |-> 0, magicNumber |-> 0, dataLength |-> 0]
\* _parseHeader: the header fields read from the buffer
headerOf(buf) ==
    [messageId |-> readUint32BE(buf, 0), dataFormat |-> readUint32BE(buf, 4),
     magicNumber |-> readUint32BE(buf, 8), dataLength |-> readUint32BE(buf, 12)]

\* _parseHeader throws
headerError(buf) ==
    \/ headerOf(buf).magicNumber # MAGIC_NUMBER
    \/ exceedsMaxBodyLength(headerOf(buf).dataLength)

\* emitCompleteMessage
emitCompleteMessage(p, bodyBuffer) ==
    [p EXCEPT !.emitted = Append(@, [header |-> p.header, body |-> bodyBuffer]),
              !.header = NoHeader, !.neededLength = HEADER_LENGTH, !.parsingState = "HEADER"]

\* _parseHeader, when it does not throw
parseHeader(p) ==
    LET q == [p EXCEPT !.header = headerOf(p.buffer),
                       !.neededLength = headerOf(p.buffer).dataLength,
                       !.parsingState = "BODY",
                       !.buffer = subarray(p.buffer, HEADER_LENGTH)]
    IN IF q.neededLength = 0 THEN emitCompleteMessage(q, <<>>) ELSE q

\* _parseBody
parseBody(p) ==
    [emitCompleteMessage(p, SubSeq(p.buffer, 1, p.neededLength))
        EXCEPT !.buffer = subarray(p.buffer, p.neededLength)]

\* _resetParserState
resetParserState(p) ==
    [p EXCEPT !.buffer = <<>>, !.header = NoHeader, !.neededLength = HEADER_LENGTH,
              !.parsingState = "HEADER"]

\* _transform: the while loop
RECURSIVE parseLoop(_)
parseLoop(p) ==
    IF Len(p.buffer) < p.neededLength THEN p
    ELSE IF p.parsingState = "HEADER"
         THEN IF headerError(p.buffer) THEN resetParserState(p)
              ELSE parseLoop(parseHeader(p))
         ELSE parseLoop(parseBody(p))

\* _transform(chunk): the socket hands the next n bytes to the parser.
Transform(n) ==
    /\ n \in 1..Len(casStream)
    /\ LET p == parseLoop([buffer |-> parser.buffer \o SubSeq(casStream, 1, n),
                           neededLength |-> parser.neededLength,
                           parsingState |-> parser.parsingState,
                           header |-> parser.header, emitted |-> <<>>])
       IN /\ parser' = [buffer |-> p.buffer, neededLength |-> p.neededLength,
                        parsingState |-> p.parsingState, header |-> p.header]
          /\ emittedMessages' = emittedMessages \o p.emitted
    /\ casStream' = subarray(casStream, n)
    /\ UNCHANGED <<inVars, txVars, wsVars, dtVars, rtVars, csVars, mqVars, apiVars, shVars, tcVars, frames>>

\* The frames CAS sends: any message id, any body up to one byte more than
\* MAX_BODY_LENGTH.
FrameSet ==
    {[messageId |-> id, body |-> [j \in 1..len |-> b]] :
        id \in MessageIds, len \in 0..(MAX_BODY_LENGTH + 1), b \in BodyBytes}

RECURSIVE streamOf(_)
streamOf(fs) ==
    IF fs = <<>> THEN <<>>
    ELSE buildMessageBuffer(Head(fs).messageId, Head(fs).body) \o streamOf(Tail(fs))

\* ==================== external-service: POST /api/reports/disaster-result

NoRequest == [pc |-> "none", system |-> None, identifier |-> None, status |-> 0]

\* disasterTransmitLogRepository.existsByIdentifier, as called by the
\* validator isExistingIdentifier: SELECT 1 ... WHERE identifier = $1
transmitLogExistsByIdentifier(rows, identifier) ==
    \E y \in ExternalSystems : rows[y][identifier] > 0

\* validateDisasterResultReport and handleValidationErrors for a request of
\* an authenticated system: 400 when isExistingIdentifier throws.
ValidateDisasterResultReport(q, system, identifier) ==
    /\ apiRequests[q].pc = "none"
    /\ \A o \in Requests : o < q => apiRequests[o].pc # "none"
    /\ apiRequests' = [apiRequests EXCEPT ![q] =
          IF transmitLogExistsByIdentifier(transmitRows, identifier)
          THEN [pc |-> "valid", system |-> system, identifier |-> identifier, status |-> 0]
          ELSE [pc |-> "responded", system |-> system, identifier |-> identifier,
                status |-> 400]]
    /\ UNCHANGED <<inVars, txVars, wsVars, dtVars, rtVars, csVars, mqVars, frVars, shVars, tcVars, reportPublishRows>>

\* reportHandler.handleDisasterResultReport: api_receive_logs and
\* report_publish_logs rows in one transaction, then 200.
HandleDisasterResultReport(q) ==
    /\ apiRequests[q].pc = "valid"
    /\ reportPublishRows' =
          [reportPublishRows EXCEPT ![apiRequests[q].system][apiRequests[q].identifier] = @ + 1]
    /\ apiRequests' = [apiRequests EXCEPT ![q].pc = "responded", ![q].status = 200]
    /\ UNCHANGED <<inVars, txVars, wsVars, dtVars, rtVars, csVars, mqVars, frVars, shVars, tcVars>>

\* ======================================== central-service: TCP client to CAS

\* The fields of the TCPClient instance, the state of its net.Socket, the
\* progress of the authentication, the timers of authHandler (authTimeoutId)
\* and sessionHandler (sessionCheckTimer, pongTimeoutId), what has been called
\* so far, and the handler that ran last with the resultCode it was given.
NewTcpClient ==
    [isConnecting |-> FALSE, isConnected |-> FALSE, shouldReconnect |-> TRUE,
     socket |-> "none", auth |-> "none", authTimeout |-> FALSE,
     sessionCheckTimer |-> FALSE, pongTimeout |-> FALSE,
     connects |-> 0, disconnectCalled |-> FALSE,
     event |-> "none", resultCode |-> "none"]

\* The resultCode values CAS puts in an ETS_RES_SYS_CON: the known ones and
\* one that the protocol does not define.
AuthResultCodes == {"401", "200", "400", "404", "500", "999"}

\* TCPClient.connect
connect(c) ==
    IF c.isConnecting \/ c.isConnected THEN c
    ELSE [c EXCEPT !.isConnecting = TRUE, !.shouldReconnect = TRUE,
                   !.socket = "connecting", !.connects = @ + 1]

\* sessionManager.getConnection()?.destroy(): the registered socket, if any.
destroy(c) == [c EXCEPT !.socket = IF @ \in {"open", "ended"} THEN "destroyed" ELSE @]

\* A timer callback that leaves the socket alone.
keepSocket(c) == c

\* sessionHandler.sendSessionCheckRequest: the ping and its pong timer.
sendSessionCheckRequest(c) == [c EXCEPT !.pongTimeout = TRUE]

\* sessionHandler.startSessionCheck
startSessionCheck(c) ==
    IF c.sessionCheckTimer THEN c
    ELSE [sendSessionCheckRequest(c) EXCEPT !.sessionCheckTimer = TRUE]

\* sessionHandler.stopSessionCheck
stopSessionCheck(c) == [c EXCEPT !.sessionCheckTimer = FALSE, !.pongTimeout = FALSE]

\* An auth response handler that destroys the socket on 400, 404 and 500 only.
handleKnownAuthResponse(c, resultCode) ==
    CASE resultCode = "401" -> [c EXCEPT !.auth = "answered", !.authTimeout = TRUE]
      [] resultCode = "200" -> [startSessionCheck([c EXCEPT !.authTimeout = FALSE])
                                  EXCEPT !.auth = "active"]
      [] resultCode \in {"400", "404", "500"} -> destroy([c EXCEPT !.authTimeout = FALSE])
      [] OTHER -> [c EXCEPT !.authTimeout = FALSE]

\* authHandler.handleAuthResponse: the timer is cleared; 401 is answered with
\* the digest and a new timer, 200 starts the session check, every other
\* code destroys the socket.
handleAuthResponse(c, resultCode) ==
    CASE resultCode = "401" -> [c EXCEPT !.auth = "answered", !.authTimeout = TRUE]
      [] resultCode = "200" -> [startSessionCheck([c EXCEPT !.authTimeout = FALSE])
                                  EXCEPT !.auth = "active"]
      [] OTHER -> destroy([c EXCEPT !.authTimeout = FALSE])

\* The callback of the pong timer set by sendSessionCheckRequest.
pongExpired(c) == destroy(c)

\* sessionManager.isConnected() for the socket of the client.
isConnected(c) == c.socket = "open"

\* The rest of rtVars, which the TCP client leaves alone.
rtVarsButSession ==
    <<reportQueue, reportsPublished, mqLog, rtLog, now, casWire, rtRun, rtPm,
      activeTimeouts, rtFailures, rtAck>>

\* startServer calls TCPClient.connect().
TcpStart ==
    /\ tcpClient.connects = 0
    /\ tcpClient' = [connect(tcpClient) EXCEPT !.event = "connect"]
    /\ UNCHANGED <<inVars, txVars, wsVars, dtVars, rtVars, csVars, mqVars, frVars, apiVars, shVars,
                   reconnectTimers>>

\* The reconnect timer set by handleClose fires.
TcpReconnectTimer ==
    /\ reconnectTimers > 0
    /\ tcpClient.connects < MaxConnects
    /\ reconnectTimers' = reconnectTimers - 1
    /\ tcpClient' = [connect(tcpClient) EXCEPT !.event = "connect"]
    /\ UNCHANGED <<inVars, txVars, wsVars, dtVars, rtVars, csVars, mqVars, frVars, apiVars, shVars>>

\* handleConnect: the socket is registered with sessionManager and the
\* initial ETS_REQ_SYS_CON is sent.
TcpHandleConnect ==
    /\ tcpClient.socket = "connecting"
    /\ tcpClient' = [tcpClient EXCEPT !.isConnecting = FALSE, !.isConnected = TRUE,
                                      !.socket = "open", !.auth = "requested",
                                      !.authTimeout = TRUE, !.event = "handleConnect"]
    /\ casConnected' = TRUE
    /\ UNCHANGED <<inVars, txVars, wsVars, dtVars, csVars, mqVars, frVars, apiVars, shVars,
                   rtVarsButSession, reconnectTimers>>

\* The parser emits an ETS_RES_SYS_CON from CAS and route calls
\* handleAuthResponse, whatever the state of the session.
TcpHandleAuthResponse(resultCode) ==
    /\ tcpClient.socket = "open"
    /\ tcpClient' = [handleAuthResponse(tcpClient, resultCode)
                        EXCEPT !.event = "authResponse", !.resultCode = resultCode]
    /\ casConnected' = isConnected(tcpClient')
    /\ UNCHANGED <<inVars, txVars, wsVars, dtVars, csVars, mqVars, frVars, apiVars, shVars,
                   rtVarsButSession, reconnectTimers>>

\* The authHandler timer fires: the registered socket, if any, is destroyed.
TcpAuthTimeout ==
    /\ tcpClient.authTimeout
    /\ tcpClient' = [destroy(tcpClient) EXCEPT !.authTimeout = FALSE,
                                               !.event = "authTimeout"]
    /\ casConnected' = FALSE
    /\ UNCHANGED <<inVars, txVars, wsVars, dtVars, csVars, mqVars, frVars, apiVars, shVars,
                   rtVarsButSession, reconnectTimers>>

\* setInterval(sendSessionCheckRequest, SESSION_CHECK_INTERVAL) fires.
TcpSessionCheckTick ==
    /\ tcpClient.sessionCheckTimer
    /\ tcpClient' = [sendSessionCheckRequest(tcpClient) EXCEPT !.event = "ping"]
    /\ UNCHANGED <<inVars, txVars, wsVars, dtVars, rtVars, csVars, mqVars, frVars, apiVars, shVars,
                   reconnectTimers>>

\* handleSessionResponse for an ETS_RES_SYS_STS from CAS: the pong timer is
\* cleared, the resultCode is only logged.
TcpHandleSessionResponse ==
    /\ tcpClient.socket = "open"
    /\ tcpClient' = [tcpClient EXCEPT !.pongTimeout = FALSE, !.event = "pong"]
    /\ UNCHANGED <<inVars, txVars, wsVars, dtVars, rtVars, csVars, mqVars, frVars, apiVars, shVars,
                   reconnectTimers>>

\* The pong timer fires.
TcpPongTimeout ==
    /\ tcpClient.pongTimeout
    /\ tcpClient' = [pongExpired(tcpClient) EXCEPT !.pongTimeout = FALSE,
                                                   !.event = "pongTimeout"]
    /\ casConnected' = FALSE
    /\ UNCHANGED <<inVars, txVars, wsVars, dtVars, csVars, mqVars, frVars, apiVars, shVars,
                   rtVarsButSession, reconnectTimers>>

\* handleClose, on the 'close' event of the socket: the connection attempt
\* failed, CAS closed the connection, or the socket was ended or destroyed.
\* The connection is cleared and the session check stopped; the authHandler
\* timer is not touched.
TcpHandleClose ==
    /\ tcpClient.socket \in {"connecting", "open", "ended", "destroyed"}
    /\ tcpClient' = [stopSessionCheck(tcpClient)
                        EXCEPT !.isConnected = FALSE, !.isConnecting = FALSE,
                               !.socket = "closed", !.auth = "none", !.event = "close"]
    /\ casConnected' = FALSE
    /\ reconnectTimers' =
          IF tcpClient.shouldReconnect /\ (tcpClient.isConnected \/ tcpClient.isConnecting)
          THEN reconnectTimers + 1 ELSE reconnectTimers
    /\ UNCHANGED <<inVars, txVars, wsVars, dtVars, csVars, mqVars, frVars, apiVars, shVars,
                   rtVarsButSession>>

\* TCPClient.disconnect: no reconnect from now on, and socket.end() when
\* there is a socket that is not destroyed.
disconnect(c) ==
    [c EXCEPT !.shouldReconnect = FALSE, !.disconnectCalled = TRUE,
              !.socket = IF @ \in {"connecting", "open"} THEN "ended" ELSE @,
              !.event = "disconnect"]

\* TCPClient.disconnect, called by gracefulShutdown.
TcpDisconnect ==
    /\ ~tcpClient.disconnectCalled
    /\ tcpClient' = disconnect(tcpClient)
    /\ casConnected' = FALSE
    /\ UNCHANGED <<inVars, txVars, wsVars, dtVars, csVars, mqVars, frVars, apiVars, shVars,
                   rtVarsButSession, reconnectTimers>>

\* ============================== both services: signals and gracefulShutdown

Services == {"central", "external"}
Signals == {"SIGINT", "SIGTERM", "uncaughtException", "unhandledRejection"}
Running == -1
NoShutdown == [pc |-> "none", signal |-> "none"]

\* process.on(signal, ...) calls gracefulShutdown(signal): the workers are
\* stopped (their intervals cleared), central-service calls
\* TCPClient.disconnect and external-service httpServer.close, and the call
\* waits for the callback.
ProcessOn(svc, k, signal) ==
    /\ exitCode[svc] = Running
    /\ shutdownCalls[svc][k].pc = "none"
    /\ \A o \in ShutdownCalls : o < k => shutdownCalls[svc][o].pc # "none"
    /\ shutdownCalls' = [shutdownCalls EXCEPT ![svc][k] =
                             [pc |-> "closing", signal |-> signal]]
    /\ tcpClient' = IF svc = "central" THEN disconnect(tcpClient) ELSE tcpClient
    /\ casConnected' = IF svc = "central" THEN FALSE ELSE casConnected
    /\ UNCHANGED <<inVars, txVars, wsVars, dtVars, rtVarsButSession, csVars, mqVars, frVars,
                   apiVars, reconnectTimers, exitCode, exitSignal>>

\* The callback of socket.end (the socket has finished writing; its 'close'
\* event comes later) or of httpServer.close runs, or there was no socket;
\* messageBrokerService.disconnect is awaited. It catches its own errors.
ShutdownClosed(svc, k) ==
    /\ exitCode[svc] = Running
    /\ shutdownCalls[svc][k].pc = "closing"
    /\ shutdownCalls' = [shutdownCalls EXCEPT ![svc][k].pc = "brokerDisconnect"]
    /\ UNCHANGED <<inVars, txVars, wsVars, dtVars, rtVars, csVars, mqVars, frVars, apiVars, tcVars,
                   exitCode, exitSignal>>

ShutdownBrokerDisconnected(svc, k) ==
    /\ exitCode[svc] = Running
    /\ shutdownCalls[svc][k].pc = "brokerDisconnect"
    /\ shutdownCalls' = [shutdownCalls EXCEPT ![svc][k].pc = "dbDisconnect"]
    /\ UNCHANGED <<inVars, txVars, wsVars, dtVars, rtVars, csVars, mqVars, frVars, apiVars, tcVars,
                   exitCode, exitSignal>>

\* The exit code gracefulShutdown gives to process.exit: 0 at the end of
\* the try block, 1 in the catch block.
shutdownExitCode(signal, cleanedUp) == IF cleanedUp THEN 0 ELSE 1

\* dbPool.disconnect returns (pool.end() resolves or rejects), and the call
\* ends the process.
ShutdownExit(svc, k, cleanedUp) ==
    /\ exitCode[svc] = Running
    /\ shutdownCalls[svc][k].pc = "dbDisconnect"
    /\ shutdownCalls' = [shutdownCalls EXCEPT ![svc][k].pc = "exited"]
    /\ exitCode' = [exitCode EXCEPT
                       ![svc] = shutdownExitCode(shutdownCalls[svc][k].signal, cleanedUp)]
    /\ exitSignal' = [exitSignal EXCEPT ![svc] = shutdownCalls[svc][k].signal]
    /\ UNCHANGED <<inVars, txVars, wsVars, dtVars, rtVars, csVars, mqVars, frVars, apiVars, tcVars>>

\* ================== both services: transactional handlers and the pg pool

\* The handlers that check a client out of the pool and run a transaction
\* on it.  handleDeviceInfoReport and handleDeviceStatusReport have the
\* shape of handleDisasterResultReport.
TransactionalHandlers ==
    {"handleDisasterInfo", "_consumeReportMessage", "_consumeDisasterMessage",
     "handleDisasterResultReport"}

NoTxCall == [pc |-> "idle", client |-> FALSE, tx |-> "none", error |-> "none"]

\* The handlers whose catch block wraps the ROLLBACK in a try/catch of its own.
rollbackGuarded(handler) == handler \in {"handleDisasterInfo", "_consumeReportMessage"}

\* A finally block that releases the client unless the ROLLBACK failed.
releaseUnlessRollbackFailed(c) ==
    [c EXCEPT !.client = IF c.tx = "rollbackFailed" THEN @ ELSE FALSE]

\* finally { if (client) client.release() }
release(c) == [c EXCEPT !.client = FALSE]

\* client = await pool.getClient(), which may reject.
TxGetClient(handler, ok) ==
    /\ txCalls[handler].pc = "idle"
    /\ txCalls' = [txCalls EXCEPT ![handler] =
                      IF ok THEN [@ EXCEPT !.pc = "begin", !.client = TRUE]
                      ELSE [@ EXCEPT !.pc = "catch", !.error = "thrown"]]
    /\ poolClients' = IF ok THEN poolClients + 1 ELSE poolClients
    /\ UNCHANGED <<inVars, wsVars, dtVars, rtVars, csVars, mqVars, frVars, apiVars, shVars, tcVars>>

\* What the handler does with the client before the transaction, and
\* client.query('BEGIN').
TxBegin(handler, ok) ==
    /\ txCalls[handler].pc = "begin"
    /\ txCalls' = [txCalls EXCEPT ![handler] =
                      IF ok THEN [@ EXCEPT !.pc = "statements", !.tx = "open"]
                      ELSE [@ EXCEPT !.pc = "catch", !.error = "thrown"]]
    /\ UNCHANGED <<inVars, wsVars, dtVars, rtVars, csVars, mqVars, frVars, apiVars, shVars, tcVars,
                   poolClients>>

\* The statements of the transaction; any of them may throw.
TxStatements(handler, ok) ==
    /\ txCalls[handler].pc = "statements"
    /\ txCalls' = [txCalls EXCEPT ![handler] =
                      IF ok THEN [@ EXCEPT !.pc = "commit"]
                      ELSE [@ EXCEPT !.pc = "catch", !.error = "thrown"]]
    /\ UNCHANGED <<inVars, wsVars, dtVars, rtVars, csVars, mqVars, frVars, apiVars, shVars, tcVars,
                   poolClients>>

\* client.query('COMMIT')
TxCommit(handler, ok) ==
    /\ txCalls[handler].pc = "commit"
    /\ txCalls' = [txCalls EXCEPT ![handler] =
                      IF ok THEN [@ EXCEPT !.pc = "finally", !.tx = "committed"]
                      ELSE [@ EXCEPT !.pc = "catch", !.error = "thrown"]]
    /\ UNCHANGED <<inVars, wsVars, dtVars, rtVars, csVars, mqVars, frVars, apiVars, shVars, tcVars,
                   poolClients>>

\* The catch block: ROLLBACK when there is a client.  A ROLLBACK that fails
\* is logged where it is guarded and leaves the catch block as an exception
\* where it is not; the finally block runs in both cases.
TxCatch(handler, ok) ==
    /\ txCalls[handler].pc = "catch"
    /\ txCalls' = [txCalls EXCEPT ![handler] =
          [@ EXCEPT !.pc = "finally",
                    !.tx = IF ~txCalls[handler].client \/ @ # "open" THEN @
                           ELSE IF ok THEN "rolledBack" ELSE "rollbackFailed",
                    !.error = IF txCalls[handler].client /\ ~ok /\ ~rollbackGuarded(handler)
                              THEN "escaped" ELSE "handled"]]
    /\ UNCHANGED <<inVars, wsVars, dtVars, rtVars, csVars, mqVars, frVars, apiVars, shVars, tcVars,
                   poolClients>>

\* The finally block.
TxFinally(handler) ==
    /\ txCalls[handler].pc = "finally"
    /\ txCalls' = [txCalls EXCEPT ![handler] = [release(@) EXCEPT !.pc = "done"]]
    /\ poolClients' = IF release(txCalls[handler]).client = txCalls[handler].client
                      THEN poolClients ELSE poolClients - 1
    /\ UNCHANGED <<inVars, wsVars, dtVars, rtVars, csVars, mqVars, frVars, apiVars, shVars, tcVars>>

\* ================================================================== Init
InitWS ==
    /\ activeSockets = [y \in Systems |-> None]
    /\ sockState = [s \in Sockets |-> "new"]
    /\ addPc = [s \in Sockets |-> "idle"]
    /\ addExisting = [s \in Sockets |-> None]

\* One disaster_transmit_logs row per Rows element, as createBulk inserts it.
InitDT ==
    /\ dtLog = [r \in Rows |-> [status |-> "PENDING", retry_count |-> 0, stale |-> FALSE]]
    /\ dtRun = [k \in Runs |-> "idle"]
    /\ dtPm = [k \in Runs |-> [r \in Rows |-> NoPm]]
    /\ emits = [e \in Emits |-> NoEmit]
    /\ nextEmit = 1

InitRT ==
    /\ reportQueue = {}
    /\ reportsPublished = 0
    /\ mqLog = [st \in {"PENDING", "SUCCESS", "FAILED"} |-> 0]
    /\ rtLog = <<>>
    /\ now = 0
    /\ casConnected = FALSE
    /\ casWire = {}
    /\ rtRun = [k \in Runs |-> "idle"]
    /\ rtPm = [k \in Runs |-> [r \in ReportIds |-> NoRtPm]]
    /\ activeTimeouts = {}
    /\ rtFailures = [r \in ReportIds |-> 0]
    /\ rtAck = [i \in Responses |-> NoAck]

InitCS ==
    /\ dpLog = [d \in Identifiers |-> NoDp]
    /\ tcpLog = [t \in TransMsgIds |-> NoTcp]
    /\ delivered = [t \in TransMsgIds |-> [n |-> 0, cap |-> None]]
    /\ handlers = [h \in Handlers |-> NoHandler]
    /\ dpRun = [k \in PublishRuns |-> "idle"]
    /\ dpPm = [k \in PublishRuns |-> [d \in Identifiers |-> NoDpPm]]
    /\ brokerUp = TRUE
    /\ disasterExchange = [d \in Identifiers |-> 0]

\* The alert with identifier 1 has been received and published earlier.
InitCSPublished ==
    /\ dpLog = [d \in Identifiers |->
                  IF d = 1 THEN [exists |-> TRUE, status |-> "SUCCESS", retry_count |-> 0,
                                 rows |-> 1]
                  ELSE NoDp]
    /\ tcpLog = [t \in TransMsgIds |->
                   IF t = 1 THEN [status |-> "SUCCESS", cap |-> 1, rows |-> 1] ELSE NoTcp]
    /\ delivered = [t \in TransMsgIds |-> IF t = 1 THEN [n |-> 1, cap |-> 1]
                                           ELSE [n |-> 0, cap |-> None]]
    /\ handlers = [h \in Handlers |-> NoHandler]
    /\ dpRun = [k \in PublishRuns |-> "idle"]
    /\ dpPm = [k \in PublishRuns |-> [d \in Identifiers |-> NoDpPm]]
    /\ brokerUp = TRUE
    /\ disasterExchange = [d \in Identifiers |-> IF d = 1 THEN 1 ELSE 0]

InitES ==
    /\ disasterQueue = [m \in DisasterMessages |-> NoMsg]
    /\ esMqLog = [st \in {"PENDING", "SUCCESS", "FAILED"} |-> 0]
    /\ transmitRows = [y \in ExternalSystems |-> [d \in Identifiers |-> 0]]

\* No frame has been written to the socket.
InitFR ==
    /\ frames = <<>>
    /\ casStream = <<>>
    /\ parser = [buffer |-> <<>>, neededLength |-> HEADER_LENGTH, parsingState |-> "HEADER",
                 header |-> NoHeader]
    /\ emittedMessages = <<>>

\* CAS has written a sequence of frames to the socket.
InitFramesSent ==
    /\ frames \in UNION {[1..n -> FrameSet] : n \in 1..MaxFrames}
    /\ casStream = streamOf(frames)
    /\ parser = [buffer |-> <<>>, neededLength |-> HEADER_LENGTH, parsingState |-> "HEADER",
                 header |-> NoHeader]
    /\ emittedMessages = <<>>

InitAPI ==
    /\ apiRequests = [q \in Requests |-> NoRequest]
    /\ reportPublishRows = [y \in ExternalSystems |-> [d \in Identifiers |-> 0]]

\* The disaster queue has been consumed: any table the consumer can leave.
InitAlertsConsumed ==
    /\ disasterQueue = [m \in DisasterMessages |-> NoMsg]
    /\ esMqLog = [st \in {"PENDING", "SUCCESS", "FAILED"} |-> 0]
    /\ transmitRows \in [ExternalSystems -> [Identifiers -> {0, 1}]]

InitSH ==
    /\ shutdownCalls = [svc \in Services |-> [k \in ShutdownCalls |-> NoShutdown]]
    /\ exitCode = [svc \in Services |-> Running]
    /\ exitSignal = [svc \in Services |-> "none"]

InitTC ==
    /\ tcpClient = NewTcpClient
    /\ reconnectTimers = 0

\* No delivery has been handled.
InitIN == reportDeliveries = {}

InitTX ==
    /\ txCalls = [handler \in TransactionalHandlers |-> NoTxCall]
    /\ poolClients = 0

Init == InitWS /\ InitDT /\ InitRT /\ InitCS /\ InitES /\ InitFR /\ InitAPI /\ InitSH /\ InitTC /\ InitIN /\ InitTX

NextWS ==
    \E s \in Sockets :
        \/ AddSocketBegin(s)
        \/ AddSocketReplace(s)
        \/ AddSocketLogged(s)
        \/ SocketDisconnect(s)

SpecWS == Init /\ [][NextWS]_vars

Next ==
    \/ \E k \in Runs : DtRun(k, MaxRacingEmits)
    \/ \E k \in Runs : DtRunDone(k)
    \/ \E k \in Runs, r \in Rows : ProcessMessageFind(k, r)
    \/ \E k \in Runs, r \in Rows : ProcessMessageDecide(k, r)
    \/ \E k \in Runs, r \in Rows : ProcessMessageEmit(k, r)
    \/ \E k \in Runs, r \in Rows : ProcessMessageEmitError(k, r)
    \/ \E k \in Runs, r \in Rows : ProcessMessageFailure(k, r)
    \/ \E e \in Emits : AckTimeout(e)
    \/ \E e \in Emits, response \in {"ack", "nack"} : EmitCallback(e, response)
    \/ \E e \in Emits : TimeoutFailure(e)
    \/ \E e \in Emits : CallbackResume(e)
    \/ \E r \in Rows : SentGoesStale(r)
    \/ \E s \in Sockets : SubscriberConnects(s)
    \/ \E s \in Sockets : SubscriberDisconnects(s)

Spec == Init /\ [][Next]_vars

\* The reports external-service publishes: device reports (no alert
\* identifier) and disaster results naming an alert identifier.
Reports ==
    {[type |-> "DEVICE_INFO", identifier |-> None]}
        \cup {[type |-> "DISASTER_RESULT", identifier |-> d] : d \in Identifiers}

NextRT ==
    \/ \E rep \in Reports : PublishReport(rep.type, rep.identifier)
    \/ \E msg \in reportQueue : ConsumeReportMessage(msg, {})
    \/ ClockTick
    \/ CasConnects
    \/ CasDisconnects
    \/ \E k \in Runs : RtRun(k)
    \/ \E k \in Runs : RtRunDone(k)
    \/ \E k \in Runs, r \in ReportIds : ReportProcessMessage(k, r)
    \/ \E k \in Runs, r \in ReportIds : ReportProcessMessageLookedUp(k, r)
    \/ \E k \in Runs, r \in ReportIds : ReportProcessMessageTimer(k, r)
    \/ \E r \in ReportIds : ReportAckTimeout(r)
    \/ \E r \in ReportIds : ReportProcessFailure(r)
    \/ \E i \in Responses, frame \in casWire, resultCode \in {"200", "500"} :
          ReportProcessAck(i, frame, resultCode)
    \/ \E i \in Responses : ReportProcessAckFound(i)
    \/ \E r \in ReportIds : ReportSentGoesStale(r)

InitPublished == InitWS /\ InitDT /\ InitRT /\ InitCSPublished /\ InitES /\ InitFR /\ InitAPI /\ InitSH /\ InitTC /\ InitIN /\ InitTX

SpecRT == InitPublished /\ [][NextRT]_vars

NextCS ==
    \/ \E h \in Handlers, t \in TransMsgIds, cap \in Caps : CasDelivers(h, t, cap)
    \/ \E h \in Handlers : HandleDuplicateCheck(h)
    \/ \E h \in Handlers : HandleCreate(h)
    \/ \E h \in Handlers : HandleTransaction(h, FALSE)
    \/ \E h \in Handlers : HandlerReturns(h)
    \/ \E k \in PublishRuns : DpRun(k)
    \/ \E k \in PublishRuns : DpRunDone(k)
    \/ \E k \in PublishRuns, d \in Identifiers : ProcessOutboxMessage(k, d)
    \/ BrokerDown
    \/ BrokerBack

SpecCS == Init /\ [][NextCS]_vars

NextES ==
    \/ \E m \in DisasterMessages, d \in Identifiers : DisasterPublished(m, d)
    \/ \E m \in DisasterMessages : ConsumeDisasterMessage(m)
    \/ \E m \in DisasterMessages, subscribedSystems \in SUBSET ExternalSystems :
          ConsumeLookup(m, subscribedSystems)
    \/ \E m \in DisasterMessages : ConsumeCommit(m)
    \/ \E m \in DisasterMessages : ConsumeAck(m)
    \/ \E m \in DisasterMessages : Redelivered(m)
    \/ \E m \in DisasterMessages : ConsumeDbError(m)

SpecES == Init /\ [][NextES]_vars

InitFrames == InitWS /\ InitDT /\ InitRT /\ InitCS /\ InitES /\ InitFramesSent /\ InitAPI /\ InitSH /\ InitTC /\ InitIN /\ InitTX

InitReports == InitWS /\ InitDT /\ InitRT /\ InitCS /\ InitAlertsConsumed /\ InitFR /\ InitAPI /\ InitSH /\ InitTC /\ InitIN /\ InitTX

NextAPI ==
    \/ \E q \in Requests, system \in ExternalSystems, identifier \in Identifiers :
          ValidateDisasterResultReport(q, system, identifier)
    \/ \E q \in Requests : HandleDisasterResultReport(q)

SpecAPI == InitReports /\ [][NextAPI]_vars

NextSH ==
    \/ \E svc \in Services, k \in ShutdownCalls, signal \in Signals :
          ProcessOn(svc, k, signal)
    \/ \E svc \in Services, k \in ShutdownCalls : ShutdownClosed(svc, k)
    \/ \E svc \in Services, k \in ShutdownCalls : ShutdownBrokerDisconnected(svc, k)
    \/ \E svc \in Services, k \in ShutdownCalls, cleanedUp \in BOOLEAN :
          ShutdownExit(svc, k, cleanedUp)
    \/ exitCode["central"] = Running /\ TcpStart
    \/ exitCode["central"] = Running /\ TcpHandleConnect
    \/ exitCode["central"] = Running /\ TcpHandleClose
    \/ exitCode["central"] = Running /\ TcpReconnectTimer

SpecSH == Init /\ [][NextSH]_vars

NextFR == \E n \in 1..(MaxFrames * (HEADER_LENGTH + MAX_BODY_LENGTH + 1)) : Transform(n)

SpecFR == InitFrames /\ [][NextFR]_vars

NextTX ==
    \/ \E handler \in TransactionalHandlers, ok \in BOOLEAN : TxGetClient(handler, ok)
    \/ \E handler \in TransactionalHandlers, ok \in BOOLEAN : TxBegin(handler, ok)
    \/ \E handler \in TransactionalHandlers, ok \in BOOLEAN : TxStatements(handler, ok)
    \/ \E handler \in TransactionalHandlers, ok \in BOOLEAN : TxCommit(handler, ok)
    \/ \E handler \in TransactionalHandlers, ok \in BOOLEAN : TxCatch(handler, ok)
    \/ \E handler \in TransactionalHandlers : TxFinally(handler)

SpecTX == Init /\ [][NextTX]_vars

\* The socket hands over every byte CAS has written.
SpecFRFair == InitFrames /\ [][NextFR]_vars /\ WF_vars(NextFR)

\* A subscriber that is connected from the start, stays connected and never
\* invokes the emit callback; emit itself does not throw.
InitSilent ==
    /\ activeSockets = [y \in Systems |-> y]
    /\ sockState = [s \in Sockets |-> IF s \in Systems THEN "connected" ELSE "new"]
    /\ addPc = [s \in Sockets |-> IF s \in Systems THEN "done" ELSE "idle"]
    /\ addExisting = [s \in Sockets |-> None]
    /\ InitDT /\ InitRT /\ InitCS /\ InitES /\ InitFR /\ InitAPI /\ InitSH /\ InitTC /\ InitIN /\ InitTX

NextSilent ==
    \/ \E k \in Runs : DtRun(k, MaxEmits)
    \/ \E k \in Runs : DtRunDone(k)
    \/ \E k \in Runs, r \in Rows : ProcessMessageFind(k, r)
    \/ \E k \in Runs, r \in Rows : ProcessMessageDecide(k, r)
    \/ \E k \in Runs, r \in Rows : ProcessMessageEmit(k, r)
    \/ \E e \in Emits : AckTimeout(e)
    \/ \E e \in Emits : TimeoutFailure(e)
    \/ \E r \in Rows : SentGoesStale(r)

\* setInterval keeps firing, database statements return, timers expire and
\* time passes.
FairSilent ==
    /\ \A k \in Runs : WF_vars(DtRun(k, MaxEmits)) /\ WF_vars(DtRunDone(k))
    /\ \A k \in Runs, r \in Rows :
          /\ WF_vars(ProcessMessageFind(k, r))
          /\ WF_vars(ProcessMessageDecide(k, r))
          /\ WF_vars(ProcessMessageEmit(k, r))
    /\ \A e \in Emits : WF_vars(AckTimeout(e)) /\ WF_vars(TimeoutFailure(e))
    /\ \A r \in Rows : WF_vars(SentGoesStale(r))

SpecSilent == InitSilent /\ [][NextSilent]_vars /\ FairSilent

\* Two reports have been consumed into report_transmit_logs, the session to
\* CAS is up and stays up, and CAS never answers with resultCode 200.
InitReportsConsumed ==
    /\ reportQueue = {}
    /\ reportsPublished = 2
    /\ mqLog = [st \in {"PENDING", "SUCCESS", "FAILED"} |-> IF st = "SUCCESS" THEN 2 ELSE 0]
    /\ rtLog = <<newReportRow("DEVICE_INFO", None, outboundIdOf("DEVICE_INFO", None, 0)),
                 newReportRow("DISASTER_RESULT", 1, outboundIdOf("DISASTER_RESULT", 1, 0))>>
    /\ now = 0
    /\ casWire = {}
    /\ rtRun = [k \in Runs |-> "idle"]
    /\ rtPm = [k \in Runs |-> [r \in ReportIds |-> NoRtPm]]
    /\ activeTimeouts = {}
    /\ rtFailures = [r \in ReportIds |-> 0]
    /\ rtAck = [i \in Responses |-> NoAck]

InitNo200 ==
    InitWS /\ InitDT /\ InitReportsConsumed /\ casConnected = TRUE /\ InitCSPublished /\ InitES /\ InitFR
        /\ InitAPI /\ InitSH /\ InitTC /\ InitIN /\ InitTX

NextNo200 ==
    \/ \E k \in Runs : RtRun(k)
    \/ \E k \in Runs : RtRunDone(k)
    \/ \E k \in Runs, r \in ReportIds : ReportProcessMessage(k, r)
    \/ \E k \in Runs, r \in ReportIds : ReportProcessMessageLookedUp(k, r)
    \/ \E k \in Runs, r \in ReportIds : ReportProcessMessageTimer(k, r)
    \/ \E r \in ReportIds : ReportAckTimeout(r)
    \/ \E r \in ReportIds : ReportProcessFailure(r)
    \/ \E i \in Responses, frame \in casWire : ReportProcessAck(i, frame, "500")
    \/ \E i \in Responses : ReportProcessAckFound(i)
    \/ \E r \in ReportIds : ReportSentGoesStale(r)

\* setInterval keeps firing, database statements return, timers expire and
\* time passes.
FairNo200 ==
    /\ \A k \in Runs : WF_vars(RtRun(k)) /\ WF_vars(RtRunDone(k))
    /\ \A k \in Runs, r \in ReportIds :
          /\ WF_vars(ReportProcessMessage(k, r))
          /\ WF_vars(ReportProcessMessageLookedUp(k, r))
          /\ WF_vars(ReportProcessMessageTimer(k, r))
    /\ \A r \in ReportIds :
          /\ WF_vars(ReportAckTimeout(r))
          /\ WF_vars(ReportProcessFailure(r))
          /\ WF_vars(ReportSentGoesStale(r))
    /\ \A i \in Responses : WF_vars(ReportProcessAckFound(i))

SpecNo200 == InitNo200 /\ [][NextNo200]_vars /\ FairNo200

\* The TCP client from the start of the service, with two reports waiting
\* in report_transmit_logs for the poller.
InitTcp ==
    InitWS /\ InitDT /\ InitReportsConsumed /\ casConnected = FALSE /\ InitCSPublished
        /\ InitES /\ InitFR /\ InitAPI /\ InitSH /\ InitTC /\ InitIN /\ InitTX

NextTCP ==
    \/ TcpStart
    \/ TcpReconnectTimer
    \/ TcpHandleConnect
    \/ \E resultCode \in AuthResultCodes : TcpHandleAuthResponse(resultCode)
    \/ TcpAuthTimeout
    \/ TcpSessionCheckTick
    \/ TcpHandleSessionResponse
    \/ TcpPongTimeout
    \/ TcpHandleClose
    \/ TcpDisconnect
    \/ \E k \in Runs : RtRun(k)
    \/ \E k \in Runs : RtRunDone(k)
    \/ \E k \in Runs, r \in ReportIds : ReportProcessMessage(k, r)
    \/ \E k \in Runs, r \in ReportIds : ReportProcessMessageLookedUp(k, r)
    \/ \E k \in Runs, r \in ReportIds : ReportProcessMessageTimer(k, r)

SpecTCP == InitTcp /\ [][NextTCP]_vars

\* The report consumer of central-service with failing database statements
\* and a failing channel.
NextInbox ==
    \/ \E rep \in Reports : PublishReport(rep.type, rep.identifier)
    \/ \E msg \in reportQueue, faults \in SUBSET {"db", "publish"} :
          ConsumeReportMessage(msg, faults)
    \/ ClockTick

SpecInbox == InitPublished /\ [][NextInbox]_vars

\* handleDisasterInfo with frames of every kind.
NextEnvelope ==
    \/ \E h \in Handlers, t \in TransMsgIds, cap \in Caps : CasDelivers(h, t, cap)
    \/ \E h \in Handlers, envelope \in Malformed : CasDeliversMalformed(h, envelope)
    \/ \E h \in Handlers : HandleDuplicateCheck(h)
    \/ \E h \in Handlers : HandleCreate(h)
    \/ \E h \in Handlers, fault \in BOOLEAN : HandleTransaction(h, fault)
    \/ \E h \in Handlers : HandlerReturns(h)

SpecEnvelope == Init /\ [][NextEnvelope]_vars

\* ---------------------------------------------------------------- C1
WSRegistrationsCompleted == \A s \in Sockets : addPc[s] \in {"idle", "done"}
ConnectedOf(y) == {s \in Sockets : systemOf(s) = y /\ sockState[s] = "connected"}

\* C1: once the registrations have completed, at most one socket of each
\* subscriber id is connected, and it is the socket stored in the session map.
C1_OneConnectedSocket ==
    WSRegistrationsCompleted =>
        \A y \in Systems :
            /\ Cardinality(ConnectedOf(y)) <= 1
            /\ \A s \in ConnectedOf(y) : activeSockets[y] = s

\* ---------------------------------------------------------------- C2
\* C2: a disaster_transmit_log row in SUCCESS or FAILED keeps its status in
\* every later step (poller pickup, ack/nack callback, timeout, emit error).
C2_TerminalStatusKept ==
    [][\A r \in Rows :
          Terminal(dtLog[r].status) => dtLog'[r].status = dtLog[r].status]_vars

\* ---------------------------------------------------------------- C4
\* C4: an outbox row in a final state has retry_count <= MAX_RETRIES + 1.
C4_TerminalRetryBound ==
    \A r \in Rows :
        Terminal(dtLog[r].status) => dtLog[r].retry_count <= DT_MAX_RETRIES + 1

\* ---------------------------------------------------------------- C7
EmitsOf(r) == {e \in Emits : emits[e].row = r}
TimeoutsHandled(r) ==
    {e \in EmitsOf(r) : emits[e].timer = "fired" /\ emits[e].th = "done"}
EmitPending(r) == \E k \in Runs : dtPm[k][r].pc = "emit"

C7_FirstExpiry ==
    \A r \in Rows :
        (Cardinality(EmitsOf(r)) = 1 /\ Cardinality(TimeoutsHandled(r)) = 1
            /\ ~EmitPending(r))
        => (dtLog[r].status = "PENDING" /\ dtLog[r].retry_count = 1)

C7_SamePayload ==
    \A e \in Emits, f \in Emits :
        (emits[e].row # None /\ emits[e].row = emits[f].row)
        => (emits[e].payload = emits[f].payload /\ emits[e].payload.logId = emits[e].row)

C7_PollReEmits ==
    \A k \in Runs, r \in Rows :
        (dtPm[k][r].pc = "decide" /\ dtPm'[k][r].pc # "decide"
            /\ dtPm[k][r].rc < DT_MAX_RETRIES)
        => (dtPm'[k][r].pc = "emit" /\ dtLog'[r].status = "SENT")

C7_ThreeTimeouts == \E r \in Rows : Cardinality(TimeoutsHandled(r)) >= 3
C7_Failed ==
    \A r \in Rows :
        Cardinality(TimeoutsHandled(r)) >= 3 => dtLog[r].status = "FAILED"

\* C7: with a connected subscriber that never invokes the emit callback, the
\* row is PENDING with retry_count 1 once the first timeout has been handled,
\* every poll that picks the row up below the retry limit emits it again with
\* the same payload, and three handled timeouts lead to the row being FAILED
\* (at the poll that follows the third).
C7_SilentSubscriber ==
    /\ [](C7_FirstExpiry /\ C7_SamePayload)
    /\ [][C7_PollReEmits]_vars
    /\ (C7_ThreeTimeouts ~> C7_Failed)

C7_Witness ==
    \E r \in Rows :
        /\ Cardinality(TimeoutsHandled(r)) = 3
        /\ dtLog[r].status = "FAILED"
        /\ dtLog[r].retry_count = DT_MAX_RETRIES

\* ---------------------------------------------------------------- C8
\* C8 (disaster_transmit_logs): a row picked up with retry_count = MAX_RETRIES
\* whose subscriber is connected is emitted once more.
C8_AttemptAtMaxRetries ==
    [][\A k \in Runs, r \in Rows :
          (dtPm[k][r].pc = "decide" /\ dtPm'[k][r].pc # "decide"
              /\ dtPm[k][r].rc = DT_MAX_RETRIES
              /\ getSocketBySystemId(externalSystemIdOf(r)) # None)
          => dtPm'[k][r].pc = "emit"]_vars

\* ---------------------------------------------------------------- C9
Offline(r) == activeSockets[externalSystemIdOf(r)] = None

\* No emit of the row can still run a handler and no _processMessage call of
\* the row is past its socket lookup.
NothingOutstanding(r) ==
    /\ \A e \in EmitsOf(r) :
          /\ emits[e].timer # "armed" /\ emits[e].th \in {"none", "done"}
          /\ emits[e].cb # "pending" /\ emits[e].ch \in {"none", "done"}
    /\ \A k \in Runs : dtPm[k][r].pc \notin {"emit", "f_incr", "f_upd"}

C9_OfflineStep ==
    \A r \in Rows :
        (Offline(r) /\ Offline(r)' /\ NothingOutstanding(r)
            /\ dtLog[r].status = "PENDING" /\ dtLog[r].retry_count < DT_MAX_RETRIES)
        => (dtLog'[r].status = "PENDING"
            /\ dtLog'[r].retry_count = dtLog[r].retry_count)

C9_ReconnectStep ==
    \A k \in Runs, r \in Rows :
        (dtPm[k][r].pc = "decide" /\ dtPm'[k][r].pc # "decide"
            /\ ~Offline(r) /\ dtPm[k][r].rc < DT_MAX_RETRIES)
        => (dtPm'[k][r].pc = "emit"
            /\ dtPm'[k][r].sock = activeSockets[externalSystemIdOf(r)]
            /\ dtLog'[r].status = "SENT")

C9_AckStep ==
    \A e \in Emits :
        (emits[e].ch = "a_upd" /\ emits'[e].ch # "a_upd")
        => dtLog'[emits[e].row].status = "SUCCESS"

C3_ReportTerminalStatusKept ==
    [][\A r \in DOMAIN rtLog :
          Terminal(rtLog[r].status) => rtLog'[r].status = rtLog[r].status]_vars

\* ---------------------------------------------------------------- C5
\* C5: no two report_transmit_log rows share (outbound_id, report_sequence).
C5_UniqueOutboundIdAndSequence ==
    \A r \in DOMAIN rtLog, q \in DOMAIN rtLog :
        (rtLog[r].outbound_id = rtLog[q].outbound_id
            /\ rtLog[r].report_sequence = rtLog[q].report_sequence)
        => r = q

\* ---------------------------------------------------------------- C6
CallsInFlight(d) == {k \in PublishRuns : dpPm[k][d].pc = "start"}

C6_DeliveryStep ==
    handlers' # handlers =>
        /\ disasterExchange' = disasterExchange
        /\ \A d \in Identifiers : dpLog[d].exists => dpLog'[d] = dpLog[d]

\* A publish is one message by one _processOutboxMessage call that read the
\* row as PENDING, and the call marks the row SUCCESS.
C6_PublishStep ==
    \A d \in Identifiers :
        disasterExchange'[d] # disasterExchange[d] =>
            /\ disasterExchange'[d] = disasterExchange[d] + 1
            /\ \E k \in PublishRuns : dpPm[k][d].pc = "start" /\ dpPm'[k][d].pc = "done"
            /\ dpLog'[d].status = "SUCCESS"

C6_Published ==
    \A d \in Identifiers :
        /\ disasterExchange[d] >= 1 => dpLog[d].exists
        /\ dpLog[d].status = "SUCCESS" => disasterExchange[d] >= 1
        /\ disasterExchange[d] <= MaxPublishRuns

C10_LaterDeliveryIsDuplicate ==
    \A h \in Handlers :
        (handlers[h].pc = "replied" /\ handlers[h].nth > 1)
        => (handlers[h].resultCode = "400" /\ handlers[h].noteCode = "300")

\* ---------------------------------------------------------------- C11
\* The handleDisasterInfo call that stored the frame's tcp_receive_logs row
\* finishes its transaction step.
Processed(h) == handlers[h].pc = "txn" /\ handlers'[h].pc = "replied"

C11_ProfileErrorStep ==
    \A h \in Handlers :
        (Processed(h) /\ handlers[h].cap = UndefinedEventCode)
        => /\ handlers'[h].resultCode = "400" /\ handlers'[h].noteCode = "220"
           /\ tcpLog'[handlers[h].transMsgId].status = "FAILED"
           /\ dpLog' = dpLog

C11_FailedKept ==
    \A t \in TransMsgIds :
        (tcpLog[t].cap = UndefinedEventCode /\ tcpLog[t].status = "FAILED")
        => tcpLog'[t] = tcpLog[t]

\* C11: a frame whose eventCode is not a valid event code is answered with
\* resultCode 400 and note 220 by the call that processes it, its
\* tcp_receive_logs row is then FAILED and stays FAILED, and the call creates
\* no disaster_publish_logs row.
C11_UndefinedEventCode ==
    [][C11_ProfileErrorStep /\ C11_FailedKept]_vars

C11_Witness ==
    \E h \in Handlers :
        /\ handlers[h].pc = "replied" /\ handlers[h].cap = UndefinedEventCode
        /\ handlers[h].resultCode = "400" /\ handlers[h].noteCode = "220"
        /\ tcpLog[handlers[h].transMsgId].status = "FAILED"
        /\ \A d \in Identifiers : ~dpLog[d].exists

\* ---------------------------------------------------------------- C12
\* A call for the frame is past the insert into tcp_receive_logs.
PastCreate(t) ==
    \E h \in Handlers : handlers[h].transMsgId = t /\ handlers[h].pc \in {"txn", "replied"}

\* C12: a delivered (inbound_id, inbound_seq) never has more than one
\* tcp_receive_logs row, and has one as soon as a call for it is past the
\* insert, also while two copies are handled at the same time; a row that
\* exists stays the only one.
C12_OneTcpReceiveLog ==
    /\ [](\A t \in TransMsgIds :
            /\ tcpLog[t].rows <= 1
            /\ tcpLog[t].rows = 1 => delivered[t].n >= 1
            /\ PastCreate(t) => tcpLog[t].rows = 1)
    /\ [][\A t \in TransMsgIds : tcpLog[t].rows = 1 => tcpLog'[t].rows = 1]_vars

C12_Witness ==
    \E h \in Handlers, g \in Handlers :
        /\ h # g
        /\ handlers[h].transMsgId = handlers[g].transMsgId
        /\ handlers[h].pc = "txn"
        /\ handlers[g].pc = "replied" /\ handlers[g].resultCode = "500"
        /\ tcpLog[handlers[h].transMsgId].rows = 1

\* ---------------------------------------------------------------- C13
\* A delivery of the alert has passed the CAP checks and committed.
PassedValidation(d) ==
    \E t \in TransMsgIds : tcpLog[t].status = "SUCCESS" /\ tcpLog[t].cap = d

\* C13: an alert identifier has a disaster_publish_logs row exactly when a
\* delivery of it passed CAP validation, and never more than one row, however
\* many deliveries carried it and under whichever transMsgId.
C13_OneDisasterPublishLog ==
    \A d \in Identifiers :
        /\ dpLog[d].rows <= 1
        /\ dpLog[d].exists <=> dpLog[d].rows = 1
        /\ PassedValidation(d) <=> dpLog[d].rows = 1

C13_Witness ==
    \E t \in TransMsgIds, u \in TransMsgIds, d \in Identifiers :
        /\ t # u
        /\ tcpLog[t].status = "SUCCESS" /\ tcpLog[t].cap = d
        /\ tcpLog[u].status = "SUCCESS" /\ tcpLog[u].cap = d
        /\ dpLog[d].rows = 1
        /\ dpLog[d].status = "PENDING"

\* ---------------------------------------------------------------- C14
Committed(m) == disasterQueue[m].pc = "found" /\ disasterQueue'[m].pc = "committed"

\* C14: a pair (external_system_id, identifier) never has more than one
\* disaster_transmit_logs row; when a consumption of the alert's message
\* commits, every system subscribed to its event code has exactly one row for
\* the identifier, and a row that exists stays the only one however often
\* the message is consumed again.
C14_OneDisasterTransmitLog ==
    /\ [](\A y \in ExternalSystems, d \in Identifiers : transmitRows[y][d] <= 1)
    /\ [][/\ \A m \in DisasterMessages : Committed(m) =>
                \A y \in disasterQueue[m].subs :
                    transmitRows'[y][disasterQueue[m].identifier] = 1
          /\ \A y \in ExternalSystems, d \in Identifiers :
                transmitRows[y][d] = 1 => transmitRows'[y][d] = 1]_vars

C14_Witness ==
    \E m \in DisasterMessages, n \in DisasterMessages, y \in ExternalSystems :
        /\ m # n
        /\ disasterQueue[m].identifier = disasterQueue[n].identifier
        /\ disasterQueue[m].pc = "done" /\ y \in disasterQueue[m].subs
        /\ disasterQueue[m].redelivered = 1
        /\ disasterQueue[n].pc = "done" /\ y \in disasterQueue[n].subs
        /\ disasterQueue[n].retry > 0
        /\ transmitRows[y][disasterQueue[m].identifier] = 1

\* ---------------------------------------------------------------- C15
FramerBuilt == \A i \in DOMAIN frames : Len(frames[i].body) <= MAX_BODY_LENGTH

\* The record the deframer should emit for a frame.
recordOf(f) ==
    [header |-> [messageId |-> f.messageId, dataFormat |-> DATA_FORMAT,
                 magicNumber |-> MAGIC_NUMBER, dataLength |-> Len(f.body)],
     body |-> f.body]

\* C15: for frames with bodies of 0..MAX_BODY_LENGTH bytes fed in arbitrary
\* chunks, the records emitted so far are the records of the first frames,
\* in order and once each, and all of them once the stream is consumed.
C15_FramerDeframer ==
    FramerBuilt =>
        /\ Len(emittedMessages) <= Len(frames)
        /\ \A i \in DOMAIN emittedMessages : emittedMessages[i] = recordOf(frames[i])
        /\ casStream = <<>> => Len(emittedMessages) = Len(frames)

C15_Witness ==
    /\ Len(frames) = 2 /\ casStream = <<>> /\ Len(emittedMessages) = 2
    /\ Len(frames[1].body) = 0 /\ Len(frames[2].body) = MAX_BODY_LENGTH
    /\ frames[1].messageId # frames[2].messageId
    /\ emittedMessages[1] = recordOf(frames[1]) /\ emittedMessages[2] = recordOf(frames[2])

\* ---------------------------------------------------------------- C16
\* C16: a first frame whose header has data_length = MAX_BODY_LENGTH is
\* emitted once the stream is consumed; no message is ever emitted with a
\* header of data_length above MAX_BODY_LENGTH, and a stream that consists of
\* one frame with data_length = MAX_BODY_LENGTH + 1 emits nothing.
C16_BodyLengthLimit ==
    /\ \A i \in DOMAIN emittedMessages :
          emittedMessages[i].header.dataLength <= MAX_BODY_LENGTH
    /\ (Len(frames[1].body) = MAX_BODY_LENGTH /\ casStream = <<>>)
          => (Len(emittedMessages) >= 1 /\ emittedMessages[1] = recordOf(frames[1]))
    /\ (Len(frames) = 1 /\ Len(frames[1].body) = MAX_BODY_LENGTH + 1)
          => emittedMessages = <<>>

C16_Witness ==
    /\ Len(frames) = 2 /\ casStream = <<>>
    /\ Len(frames[1].body) = MAX_BODY_LENGTH
    /\ Len(frames[2].body) = MAX_BODY_LENGTH + 1
    /\ emittedMessages = <<recordOf(frames[1])>>
    /\ parser.parsingState = "HEADER" /\ parser.buffer # <<>>

\* ---------------------------------------------------------------- C17
\* C17: a DISASTER_RESULT report of system S for identifier I is accepted
\* (answered 200, stored in report_publish_logs) only if a
\* disaster_transmit_logs row for (S, I) exists.
C17_AcceptedOnlyFromTarget ==
    /\ \A q \in Requests :
          apiRequests[q].status = 200
          => transmitRows[apiRequests[q].system][apiRequests[q].identifier] >= 1
    /\ \A y \in ExternalSystems, d \in Identifiers :
          reportPublishRows[y][d] >= 1 => transmitRows[y][d] >= 1

\* ---------------------------------------------------------------- C18
\* C18: a shutdown started by SIGINT or SIGTERM ends with exit code 0, and a
\* shutdown started by an uncaught exception or an unhandled rejection ends
\* with exit code 1.
C18_ExitCodeBySignal ==
    \A svc \in Services :
        exitCode[svc] # Running
        => /\ exitSignal[svc] \in {"SIGINT", "SIGTERM"} => exitCode[svc] = 0
           /\ exitSignal[svc] \in {"uncaughtException", "unhandledRejection"}
                 => exitCode[svc] = 1

\* ---------------------------------------------------------------- C19
\* C19: for each disaster_transmit_logs row at most one emit is awaiting its
\* callback or the expiry of its TRANSMISSION_TIMEOUT timer at any time.
EmitsInFlight(r) == {e \in Emits : emits[e].row = r /\ emits[e].timer = "armed"}

C19_OneEmitInFlight == \A r \in Rows : Cardinality(EmitsInFlight(r)) <= 1

\* ---------------------------------------------------------------- C20
\* C20: two runs of the same poller are never in progress at the same time:
\* a tick's query-and-dispatch starts only after all dispatches of the
\* previous tick have settled.
RunsInProgress == {k \in PublishRuns : dpRun[k] = "wait"}

C20_RunsNeverOverlap == Cardinality(RunsInProgress) <= 1

\* ---------------------------------------------------------------- C21
\* C21: each emit is completed by exactly one of its callback and its
\* timeout: the handler of a callback that arrives after the timer of its
\* emit has fired changes neither the status nor the retry_count of the row.
C21_LateCallbackChangesNothing ==
    [][\A e \in Emits :
          (/\ emits[e].timer = "fired"
           /\ emits[e].cb = "called"
           /\ emits'[e].ch # emits[e].ch)
          => /\ dtLog'[emits[e].row].status = dtLog[emits[e].row].status
             /\ dtLog'[emits[e].row].retry_count = dtLog[emits[e].row].retry_count]_vars

\* ---------------------------------------------------------------- C22
\* C22: before every send attempt of a report_transmit_logs row other than
\* its first, retry_count and report_sequence have been incremented: a row
\* that is sent while its status is SENT (left by an earlier attempt) goes
\* out with a retry_count above 0 and a transMsgSeq above the initial 1.
C22_RetryCarriesFreshSequence ==
    [][\A k \in Runs, r \in ReportIds :
          (/\ rtPm[k][r].pc \in {"start", "send"}
           /\ rtPm'[k][r].pc = "timer"
           /\ rtLog[r].status = "SENT")
          => /\ rtPm[k][r].log.retry_count > 0
             /\ rtPm[k][r].log.report_sequence > 1]_vars

\* ---------------------------------------------------------------- C23
\* C23: a report_transmit_logs row that never receives a resultCode-200
\* response becomes FAILED after a bounded number of attempts; it does not
\* cycle between PENDING and SENT forever.
C23_EventuallyFailed ==
    \A r \in ReportIds : <>(r \in DOMAIN rtLog => rtLog[r].status = "FAILED")

\* ---------------------------------------------------------------- C24
\* C24: a report frame is written to the CAS socket only while the session
\* is active, that is after authentication has completed with resultCode
\* 200 on the current connection.
C24_ReportsOnlyWhenActive ==
    [][casWire' # casWire => tcpClient.auth = "active"]_vars

\* ---------------------------------------------------------------- C30
\* C30: once disconnect() has been called, no further connection attempt is
\* started.
C30_NoConnectAfterDisconnect ==
    [][tcpClient.disconnectCalled => tcpClient'.connects = tcpClient.connects]_vars

\* ---------------------------------------------------------------- C25
\* C25: after a delivery has been handled, the report_transmit_logs rows and
\* the SUCCESS rows of mq_receive_logs correspond one to one.
C25_OutboxRowIffInboxSuccess == Len(rtLog) = mqLog["SUCCESS"]

\* ---------------------------------------------------------------- C26
\* C26: every handled delivery has been settled exactly once, by one ack or
\* one nack.
C26_SettledExactlyOnce == \A d \in reportDeliveries : d.acks + d.nacks = 1

\* ---------------------------------------------------------------- C27
DeliveriesOf(n) == {d \in reportDeliveries : d.n = n}

HandlersInProgress == {h \in Handlers : handlers[h].pc # "idle"}

\* C28: at most one handleDisasterInfo call is in progress at any time.
C28_OneHandlerAtATime == Cardinality(HandlersInProgress) <= 1

\* ---------------------------------------------------------------- C29
\* C29: a frame whose wrapper cannot be parsed, or lacks transMsgId or
\* transMsgSeq, is answered with a NACK carrying note 810.
C29_MalformedAlwaysNacked ==
    \A h \in Handlers :
        handlers[h].envelope \in Malformed =>
            handlers[h].pc = "replied" /\ handlers[h].noteCode = "810"

\* ------------------------------------------------------------------ C31
\* C31: the session check (the T_sess loop of an ACTIVE session) is started
\* only by an ETS_RES_SYS_CON that arrives after the digest response to a
\* 401 was sent on the current connection.
C31_ActiveOnlyAfterDigest ==
    [][(tcpClient'.sessionCheckTimer /\ ~tcpClient.sessionCheckTimer)
          => tcpClient.auth = "answered"]_vars

\* ------------------------------------------------------------------ C32
\* C32: an ETS_RES_SYS_CON handled while the session is ACTIVE changes
\* nothing: no timer is armed, the session check is not restarted and the
\* socket is not destroyed, whatever the resultCode.
C32_AuthResponseIgnoredWhenActive ==
    [][(tcpClient.auth = "active" /\ tcpClient' # tcpClient
            /\ tcpClient'.event = "authResponse")
          => tcpClient' = [tcpClient EXCEPT !.event = "authResponse",
                                            !.resultCode = tcpClient'.resultCode]]_vars

\* ------------------------------------------------------------------ C33
Authenticating == tcpClient.auth \in {"requested", "answered"}

\* C33: while the client is authenticating, the expiry of the response timer
\* and a resultCode other than 401 and 200 leave the socket destroyed and
\* the session disconnected.
C33_AuthFailureDestroys ==
    (Authenticating
       /\ \/ tcpClient.event = "authTimeout"
          \/ tcpClient.event = "authResponse" /\ tcpClient.resultCode \notin {"401", "200"})
      => tcpClient.socket = "destroyed" /\ ~casConnected

C33_Witness ==
    /\ tcpClient.auth = "requested"
    /\ tcpClient.event = "authResponse"
    /\ tcpClient.resultCode = "999"
    /\ tcpClient.socket = "destroyed"

\* ------------------------------------------------------------------ C34
C34_PingArmsPong ==
    (tcpClient.event = "ping" /\ tcpClient.socket = "open") => tcpClient.pongTimeout

C34_Steps ==
    /\ (tcpClient' # tcpClient /\ tcpClient'.event = "pong")
          => tcpClient' = [tcpClient EXCEPT !.event = "pong", !.pongTimeout = FALSE]
    /\ (tcpClient' # tcpClient /\ tcpClient'.event = "pongTimeout")
          => tcpClient.pongTimeout /\ tcpClient'.socket = "destroyed"
    /\ (tcpClient' # tcpClient /\ tcpClient'.event = "ping")
          => tcpClient'.socket = tcpClient.socket

C40_NoTimerWhileDisconnected ==
    tcpClient.socket \in {"none", "closed"}
      => ~tcpClient.authTimeout /\ ~tcpClient.pongTimeout /\ ~tcpClient.sessionCheckTimer

\* ------------------------------------------------------------------ C38
\* C38: once the consumer has handled a delivery (committed it, handed it
\* to the retry exchange or dead-lettered it) the mq_receive_log row written
\* for that delivery is SUCCESS or FAILED, so that no row is PENDING between
\* two runs of the consumer.
C38_NoInboxRowStaysPending == mqLog["PENDING"] = 0

\* ------------------------------------------------------------------ C37
\* C37: on graceful shutdown each step starts only after the step before it
\* has completed: the broker connection of central-service is not
\* disconnected, nor the pool closed, before the TCP session to CAS is
\* closed.
C37_BrokerAfterSessionClosed ==
    \A k \in ShutdownCalls :
        shutdownCalls["central"][k].pc \in {"brokerDisconnect", "dbDisconnect", "exited"}
          => tcpClient.socket \in {"none", "closed", "destroyed"}

\* ------------------------------------------------------------------ C39
\* C39: a frame with a valid alert that CAS sends again after its first
\* processing failed with an internal error (its tcp_receive_logs row is
\* FAILED when the frame arrives) is processed: it is answered 200 and
\* the alert has its disaster_publish_logs row.
C39_ResendAfterFailureAccepted ==
    \A h \in Handlers :
        (handlers[h].pc = "replied" /\ handlers[h].cap \in Identifiers
           /\ handlers[h].found = "FAILED")
          => handlers[h].resultCode = "200" /\ dpLog[handlers[h].cap].rows >= 1

\* ------------------------------------------------------------------ C35
\* The parser has consumed bytes of a first frame with an oversize length,
\* emitted nothing and holds nothing: it has discarded its buffer and awaits
\* a header, and the second frame, a valid one, is still wholly unread.
C35_FailedBeforeValidFrame ==
    /\ Len(frames) = 2
    /\ Len(frames[1].body) = MAX_BODY_LENGTH + 1
    /\ Len(frames[2].body) <= MAX_BODY_LENGTH
    /\ emittedMessages = <<>>
    /\ parser.buffer = <<>> /\ parser.parsingState = "HEADER"
    /\ Len(casStream) < Len(streamOf(frames))
    /\ Len(casStream) >= Len(streamOf(<<frames[2]>>))

\* C35: after a framing failure the next valid message that is received is
\* framed and emitted.
C35_NextValidMessageEmitted ==
    C35_FailedBeforeValidFrame
      ~> (/\ Len(frames) = 2
          /\ \E i \in DOMAIN emittedMessages : emittedMessages[i] = recordOf(frames[2]))

\* ------------------------------------------------------------------ C36
\* C36: when a transactional handler has left its finally block, COMMIT or
\* ROLLBACK has been issued for the transaction it began (also when a
\* statement failed) and its client is back in the pool (also when the
\* ROLLBACK failed); the pool misses exactly the clients of the calls that
\* still hold one.
C36_TransactionEndedClientReleased ==
    /\ \A handler \in TransactionalHandlers :
          txCalls[handler].pc = "done"
            => /\ ~txCalls[handler].client
               /\ txCalls[handler].tx \in {"none", "committed", "rolledBack", "rollbackFailed"}
    /\ poolClients = Cardinality({handler \in TransactionalHandlers : txCalls[handler].client})

C36_Witness ==
    /\ txCalls["handleDisasterResultReport"] =
          [pc |-> "done", client |-> FALSE, tx |-> "rollbackFailed", error |-> "escaped"]
    /\ txCalls["handleDisasterInfo"] =
          [pc |-> "done", client |-> FALSE, tx |-> "rolledBack", error |-> "handled"]
    /\ txCalls["_consumeDisasterMessage"].tx = "committed"
    /\ poolClients = 0
====
